---- MODULE Spec2Model ----
(***************************************************************************)
(* Verification model of cli-cih's orchestration core: Coordinator.process *)
(* (fast path and standard path), DiscussionManager.run, SharedContext and *)
(* Synthesizer.synthesize.  The two async generators are modelled by their *)
(* position (pc) and by the streams of events they have yielded so far.    *)
(***************************************************************************)
EXTENDS Integers, Sequences, FiniteSets, TLC

(* ------------------------------ bounds --------------------------------- *)
\* largest DiscussionConfig.max_rounds a Coordinator is constructed with
MaxRounds == 2
\* largest total number of chunks the adapters yield during one process()
MaxChunks == 2
\* periods of config.timeout seconds a send is watched while its backend is
\* silent
MaxWaits == 2
\* execute calls made on one circuit breaker
MaxCalls == 6
\* readings of the clock: 0..MaxTime
MaxTime == 3

(* ------------------------- program constants --------------------------- *)
\* SharedContext.__init__ default max_tokens
max_tokens == 8000
\* DiscussionConfig.consensus_threshold default, in tenths
consensus_threshold == 7
\* AdapterConfig.max_retries
max_retries == 3
\* build_prompt_for truncates message contents above this many characters
PromptTruncate == 500
\* _fast_single_ai_response truncates the summary above this many characters
FastSummaryLimit == 200

\* Python's None where a record is expected, and where a string is expected
None == [none |-> TRUE]
NoneStr == "None"

(* ------------------------------ text ----------------------------------- *)
(* A text is the sequence of the chunk symbols it was built from, so that  *)
(* "".join(chunks) is the chunk list itself and += is Append.  Each        *)
(* symbol stands for a piece of text ending in a space: "agree " is a     *)
(* short word that is an agreement phrase, "BUT " is a 20000-character     *)
(* objection without sentence break that holds a disagreement cue.         *)
ChunkTexts == {"agree ", "BUT "}

\* any other symbol is a line of its own, written out: its characters and
\* the line breaks before and after it
ChunkLen(c) == CASE c = "agree " -> 6
                 [] c = "BUT "   -> 20000
                 [] OTHER        -> Len(c) + 2

RECURSIVE TextLen(_)
TextLen(s) == IF s = <<>> THEN 0 ELSE ChunkLen(Head(s)) + TextLen(Tail(s))

\* `phrase in content_lower` for the agreement phrases of _check_consensus
HasAgreementPhrase(content) == \E i \in 1..Len(content) : content[i] = "agree "

(* ------------------------------ adapters ------------------------------- *)
DisplayName(n) == CASE n = "claude" -> "Claude"
                    [] n = "codex"   -> "Codex"
                    [] n = "copilot" -> "Copilot"
                    [] n = "gemini"  -> "Gemini"
                    [] n = "glm"     -> "GLM-4.7"
                    [] n = "ollama"  -> "Ollama"

Adapter(n) == [name |-> n, display_name |-> DisplayName(n)]

\* what an adapter's send can raise
AdapterErrorKinds == {"AdapterError", "TimeoutError", "Exception"}

(* ------------------------------ tasks ---------------------------------- *)
Max(a, b) == IF a > b THEN a ELSE b
Min(a, b) == IF a < b THEN a ELSE b

\* TaskAnalyzer._suggest_rounds; complexity in hundredths
suggest_rounds(complexity, task_type) ==
    LET base == 3 + (IF complexity > 70 THEN 2
                     ELSE IF complexity > 40 THEN 1 ELSE 0)
                  + (IF task_type \in {"design", "analysis"} THEN 1
                     ELSE IF task_type \in {"explain", "general"} THEN -1
                     ELSE 0)
    IN  Max(2, Min(7, base))

\* the Task records TaskAnalyzer.analyze returns for the modelled inputs
Task(task_type, complexity) ==
    IF task_type = "simple_chat"
    THEN [task_type |-> "simple_chat", complexity |-> 10, suggested_rounds |-> 1]
    ELSE [task_type |-> task_type, complexity |-> complexity,
          suggested_rounds |-> suggest_rounds(complexity, task_type)]

\* Coordinator.process: the fast-path test
IsFastPath(t) == t.task_type = "simple_chat" \/ t.complexity < 30

(* ------------------------------ selector ------------------------------- *)
\* OLLAMA_PROFILES: display names of the instances of each profile
OllamaProfile(task_type) ==
    CASE task_type \in {"code", "debug"}        -> <<"Ollama-Coder", "Ollama-Reasoner">>
      [] task_type \in {"analysis", "research"} -> <<"Ollama-Analysis", "Ollama-Logic", "Ollama-Deep">>
      [] task_type = "creative"                 -> <<"Ollama-Creative", "Ollama-Fast">>
      [] OTHER                                  -> <<"Ollama-Main">>

InList(n, names) == \E i \in 1..Len(names) : names[i] = n

\* AISelector._select_ollama_models
select_ollama_models(t, names, ollama_available) ==
    IF ~InList("ollama", names) \/ ~ollama_available THEN <<>>
    ELSE LET profiles == OllamaProfile(t.task_type)
             count == IF t.complexity > 70 THEN Min(Len(profiles), 3)
                      ELSE IF t.complexity > 50 THEN Min(Len(profiles), 2)
                      ELSE 1
         IN  [i \in 1..count |-> [name |-> "ollama", display_name |-> profiles[i]]]

\* AISelector._select_single_ai
select_single_ai(names) ==
    IF names = <<>> THEN <<>>
    ELSE IF InList("claude", names) THEN <<Adapter("claude")>>
    ELSE <<Adapter(names[1])>>

\* AISelector.select
select(t, names, ollama_available) ==
    IF t.task_type = "simple_chat" \/ t.complexity < 30
    THEN select_single_ai(names)
    ELSE IF names = <<>> THEN <<>>
    ELSE (IF InList("claude", names) THEN <<Adapter("claude")>> ELSE <<>>)
         \o (IF InList("codex", names) THEN <<Adapter("codex")>> ELSE <<>>)
         \o (IF InList("gemini", names) THEN <<Adapter("gemini")>> ELSE <<>>)
         \o select_ollama_models(t, names, ollama_available)

(* --------------------------- shared context ---------------------------- *)
\* Message.__post_init__: rough token estimate
Message(ai_name, content, round) ==
    [ai_name |-> ai_name, content |-> content, round_num |-> round,
     token_count |-> TextLen(content) \div 4]

\* SharedContext.__init__
SharedContext ==
    [messages |-> <<>>, ai_message_counts |-> <<>>, current_round |-> 0,
     consensus_reached |-> FALSE, key_points |-> <<>>]

\* defaultdict(int)[k] += 1
Incr(d, k) == IF k \in DOMAIN d THEN [d EXCEPT ![k] = @ + 1] ELSE d @@ (k :> 1)

\* point[:100]
First100(point) == SubSeq(point, 1, Min(100, Len(point)))

\* list.append followed by `if len(self.key_points) > 20: pop(0)`
KeepLast20(key_points, point) ==
    IF Len(key_points) + 1 > 20 THEN Tail(Append(key_points, point))
    ELSE Append(key_points, point)

\* _extract_key_points: the test on the stripped line
is_point_line(line) ==
    /\ line # ""
    /\ SubSeq(line, 1, 1) \in {"0", "1", "2", "3", "4", "5", "6", "7", "8", "9", "-", "*"}

\* SharedContext._extract_key_points: the lines of content in order; the
\* chunk symbols "agree " and "BUT " hold no line break and no bullet
RECURSIVE extract_key_points(_, _)
extract_key_points(key_points, content) ==
    IF content = <<>> THEN key_points
    ELSE LET line == Head(content)
             point == First100(line)
         IN  extract_key_points(
                 IF line \notin ChunkTexts /\ is_point_line(line)
                    /\ ~(\E i \in 1..Len(key_points) : key_points[i] = point)
                 THEN KeepLast20(key_points, point)
                 ELSE key_points,
                 Tail(content))

\* SharedContext.add_message
add_message(c, ai_name, content, round) ==
    [c EXCEPT !.messages = Append(@, Message(ai_name, content, round)),
              !.ai_message_counts = Incr(@, ai_name),
              !.current_round = Max(@, round),
              !.key_points = extract_key_points(@, content)]

\* SharedContext.get_recent_messages: self.messages[-count:]
get_recent_messages(c, count) ==
    LET n == Len(c.messages)
    IN  IF n <= count THEN c.messages ELSE SubSeq(c.messages, n - count + 1, n)

\* SharedContext._get_context_messages: newest first, until the budget breaks
RECURSIVE ContextFrom(_, _, _)
ContextFrom(msgs, i, token_count) ==
    IF i = 0 THEN <<>>
    ELSE IF token_count + msgs[i].token_count > max_tokens \div 2 THEN <<>>
    ELSE Append(ContextFrom(msgs, i - 1, token_count + msgs[i].token_count), msgs[i])

get_context_messages_skips_newest(c) ==
    ContextFrom(c.messages, Max(0, Len(c.messages) - 1), 0)
get_context_messages(c) == ContextFrom(c.messages, Len(c.messages), 0)

LastN(s, n) == IF Len(s) <= n THEN s ELSE SubSeq(s, Len(s) - n + 1, Len(s))

Reverse(s) == [i \in 1..Len(s) |-> s[Len(s) + 1 - i]]

\* SharedContext.build_prompt_for: the parts of the prompt that vary
build_prompt_for_newest_first(c, ai_name, is_first_round) ==
    IF is_first_round
    THEN [ai_name |-> ai_name, first_round |-> TRUE, history |-> <<>>,
          key_points |-> <<>>]
    ELSE LET recent == Reverse(get_context_messages(c))
         IN  [ai_name |-> ai_name, first_round |-> FALSE,
              history |-> [i \in 1..Len(recent) |->
                             [ai_name |-> recent[i].ai_name,
                              content |-> recent[i].content,
                              truncated |-> TextLen(recent[i].content) > PromptTruncate]],
              key_points |-> LastN(c.key_points, 5)]

build_prompt_for(c, ai_name, is_first_round) ==
    IF is_first_round
    THEN [ai_name |-> ai_name, first_round |-> TRUE, history |-> <<>>,
          key_points |-> <<>>]
    ELSE LET recent == get_context_messages(c)
         IN  [ai_name |-> ai_name, first_round |-> FALSE,
              history |-> [i \in 1..Len(recent) |->
                             [ai_name |-> recent[i].ai_name,
                              content |-> recent[i].content,
                              truncated |-> TextLen(recent[i].content) > PromptTruncate]],
              key_points |-> LastN(c.key_points, 5)]

(* ------------------------------ events --------------------------------- *)
TaskAnalyzedEvent(t) == [type |-> "TaskAnalyzed", task |-> t]
AIsSelectedEvent(as) == [type |-> "AIsSelected", adapters |-> as]
RoundStartEvent(r, m) == [type |-> "RoundStart", round_num |-> r, max_rounds |-> m]
RoundEndEvent(r) == [type |-> "RoundEnd", round_num |-> r]
AITurnStartEvent(n) == [type |-> "AITurnStart", ai_name |-> n]
AIStartEvent(n) == [type |-> "AIStart", ai_name |-> n]
AIChunkEvent(n, ch) == [type |-> "AIChunk", ai_name |-> n, chunk |-> ch]
AITurnEndEvent(n, full) == [type |-> "AITurnEnd", ai_name |-> n, full_response |-> full]
AIEndEvent(n, full) == [type |-> "AIEnd", ai_name |-> n, response |-> full]
AIErrorEvent(n, e) == [type |-> "AIError", ai_name |-> n, error |-> e]
ConsensusCheckEvent(r, reached) ==
    [type |-> "ConsensusCheck", round_num |-> r, consensus_reached |-> reached]
ConsensusReachedEvent(r) == [type |-> "ConsensusReached", round_num |-> r]
DiscussionCompleteEvent(total, reached) ==
    [type |-> "DiscussionComplete", total_rounds |-> total, consensus_reached |-> reached]
ResultEvent(res) == [type |-> "Result", result |-> res]

\* Coordinator._convert_event
convert_event_passes_consensus(e) ==
    CASE e.type = "AITurnStart" -> AIStartEvent(e.ai_name)
      [] e.type = "AITurnEnd"   -> AIEndEvent(e.ai_name, e.full_response)
      [] OTHER -> e
convert_event(e) ==
    CASE e.type = "AITurnStart" -> AIStartEvent(e.ai_name)
      [] e.type = "AITurnEnd"   -> AIEndEvent(e.ai_name, e.full_response)
      [] e.type = "ConsensusCheck" /\ e.consensus_reached -> ConsensusReachedEvent(e.round_num)
      [] OTHER -> e

(* ----------------------------- synthesizer ----------------------------- *)
\* Synthesizer.synthesize: the fields computed from the context's counters
synthesize(c) ==
    [ai_contributions |-> c.ai_message_counts,
     total_messages |-> Len(c.messages),
     total_rounds |-> c.current_round,
     consensus_reached |-> c.consensus_reached,
     key_points |-> c.key_points,
     minimal |-> FALSE]

\* the SynthesisResult _fast_single_ai_response builds by hand
FastResult(adapter, full_response) ==
    [ai_contributions |-> (adapter.name :> 100),
     total_messages |-> 1,
     total_rounds |-> 1,
     consensus_reached |-> TRUE,
     key_points |-> <<>>,
     minimal |-> TRUE,
     summary |-> [text |-> full_response,
                  truncated |-> TextLen(full_response) > FastSummaryLimit]]

(* --------------------------- discussion -------------------------------- *)
\* DiscussionState()
DiscussionState ==
    [current_round |-> 0, is_complete |-> FALSE, consensus_reached |-> FALSE,
     ai_responses |-> <<>>]

AppendResponse(d, k, full) ==
    IF k \in DOMAIN d THEN [d EXCEPT ![k] = Append(@, full)] ELSE d @@ (k :> <<full>>)

check_consensus_vacuous(c) ==
    LET recent == get_recent_messages(c, 4)
        agreement_count == Cardinality({i \in 1..Len(recent) :
                                          HasAgreementPhrase(recent[i].content)})
    IN  IF Len(recent) < 2 THEN TRUE
        ELSE agreement_count * 10 >= consensus_threshold * Len(recent)

\* DiscussionManager._check_consensus
check_consensus(c) ==
    LET recent == get_recent_messages(c, 4)
        agreement_count == Cardinality({i \in 1..Len(recent) :
                                          HasAgreementPhrase(recent[i].content)})
    IN  IF Len(recent) < 2 THEN FALSE
        ELSE agreement_count * 10 >= consensus_threshold * Len(recent)

(* --------------------------- conflict resolver ------------------------- *)
\* AI_STRENGTHS, in hundredths; unknown adapters and kinds default to 0.5
AI_STRENGTHS ==
    [claude |-> [code |-> 90, design |-> 95, analysis |-> 90, creative |-> 85,
                 research |-> 80, debug |-> 85, explain |-> 95, general |-> 90,
                 simple_chat |-> 90],
     codex  |-> [code |-> 95, design |-> 85, analysis |-> 80, creative |-> 70,
                 research |-> 70, debug |-> 90, explain |-> 75, general |-> 80,
                 simple_chat |-> 70],
     gemini |-> [code |-> 85, design |-> 85, analysis |-> 90, creative |-> 90,
                 research |-> 95, debug |-> 80, explain |-> 90, general |-> 85,
                 simple_chat |-> 85],
     ollama |-> [code |-> 80, design |-> 75, analysis |-> 75, creative |-> 80,
                 research |-> 70, debug |-> 75, explain |-> 80, general |-> 80,
                 simple_chat |-> 85]]

Strength(ai_name, task_type) ==
    IF ai_name \in DOMAIN AI_STRENGTHS /\ task_type \in DOMAIN AI_STRENGTHS[ai_name]
    THEN AI_STRENGTHS[ai_name][task_type] ELSE 50

\* text[:n] as the words it keeps: [w |-> symbol, n |-> characters kept]
RECURSIVE Prefix(_, _)
Prefix(text, n) ==
    IF text = <<>> \/ n <= 0 THEN <<>>
    ELSE <<[w |-> Head(text), n |-> Min(n, ChunkLen(Head(text)) - 1)]>>
         \o Prefix(Tail(text), n - ChunkLen(Head(text)))

\* ConflictResolver._extract_position: no modelled text matches a
\* recommendation pattern or holds a sentence break, so the position is
\* text.strip()[:100]
extract_position(text) == Prefix(text, 100)

\* ConflictResolver._estimate_confidence: no modelled text holds a cue
estimate_confidence(text) == 70

\* names in order of first appearance (dict insertion order)
FirstMentions(msgs) ==
    {i \in 1..Len(msgs) : \A j \in 1..(i - 1) : msgs[j].ai_name # msgs[i].ai_name}

NamesOf(msgs) ==
    [k \in 1..Cardinality(FirstMentions(msgs)) |->
        msgs[CHOOSE i \in FirstMentions(msgs) :
                Cardinality({j \in FirstMentions(msgs) : j <= i}) = k].ai_name]

LatestOf(msgs, n) ==
    msgs[CHOOSE i \in 1..Len(msgs) :
            /\ msgs[i].ai_name = n
            /\ \A j \in (i + 1)..Len(msgs) : msgs[j].ai_name # n].content

\* ConflictResolver._extract_opinions: one opinion per name, from the
\* latest message of that name
RECURSIVE OpinionsOf(_, _)
OpinionsOf(msgs, names) ==
    IF names = <<>> THEN <<>>
    ELSE LET n == names[Len(names)]
         IN  Append(OpinionsOf(msgs, SubSeq(names, 1, Len(names) - 1)),
                    [ai_name |-> n,
                     position |-> extract_position(LatestOf(msgs, n)),
                     confidence |-> estimate_confidence(LatestOf(msgs, n))])

extract_opinions(c) == OpinionsOf(c.messages, NamesOf(c.messages))

\* DISAGREEMENT_PATTERNS
HasDisagreementCue(content) == \E i \in 1..Len(content) : content[i] = "BUT "

\* ConflictResolver._calculate_position_diversity: numerator; the
\* denominator is len(opinions) - 1
UniqueStarts(opinions) ==
    Cardinality({ SubSeq(opinions[i].position, 1, Min(3, Len(opinions[i].position))) :
                  i \in 1..Len(opinions) })

\* ConflictResolver._calculate_disagreement < 0.3, in exact arithmetic:
\* 0.6 * count/total + 0.4 * (unique - 1)/(n - 1) < 0.3
BelowDisagreementThreshold(c, opinions) ==
    LET total == Len(c.messages)
        count == Cardinality({i \in 1..total : HasDisagreementCue(c.messages[i].content)})
        n == Len(opinions)
    IN  6 * count * (n - 1) + 4 * (UniqueStarts(opinions) - 1) * total
          < 3 * total * (n - 1)

\* ConflictResolver.detect_conflict; opinions is bound to the value of
\* _extract_opinions, which is computed once
detect_conflict(c, task_type) ==
    IF task_type = "simple_chat" THEN None
    ELSE IF Len(c.messages) < 2 THEN None
    ELSE CHOOSE conflict \in
           { IF Len(opinions) < 2 THEN None
             ELSE IF BelowDisagreementThreshold(c, opinions) THEN None
             ELSE [opinions |-> opinions, round_detected |-> c.current_round] :
             opinions \in {extract_opinions(c)} } : TRUE

\* one iteration of the vote loop of ConflictResolver.resolve
AddVote(votes, o, task_type) ==
    LET weight == Strength(o.ai_name, task_type) * o.confidence
    IN  IF \E i \in 1..Len(votes) : votes[i].position = o.position
        THEN [i \in 1..Len(votes) |->
                IF votes[i].position = o.position
                THEN [votes[i] EXCEPT !.supporters = Append(@, o.ai_name),
                                      !.weight = @ + weight]
                ELSE votes[i]]
        ELSE Append(votes, [position |-> o.position, supporters |-> <<o.ai_name>>,
                            weight |-> weight])

\* votes of ConflictResolver.resolve, in insertion order; the votes of the
\* earlier opinions are computed once, then the last opinion is added
RECURSIVE Votes(_, _)
Votes(opinions, task_type) ==
    IF opinions = <<>> THEN <<>>
    ELSE CHOOSE votes \in
           { AddVote(rest, opinions[Len(opinions)], task_type) :
             rest \in {Votes(SubSeq(opinions, 1, Len(opinions) - 1), task_type)} } : TRUE

\* sorted(votes.values(), key=weight, reverse=True): stable, so a vote
\* comes after the heavier ones and after the earlier ones of its weight
RankByWeight(votes, i) ==
    Cardinality({j \in 1..Len(votes) :
                   \/ votes[j].weight > votes[i].weight
                   \/ votes[j].weight = votes[i].weight /\ j <= i})
SortByWeight(votes) ==
    [k \in 1..Len(votes) |->
        votes[CHOOSE i \in 1..Len(votes) : RankByWeight(votes, i) = k]]

\* ConflictResolver.resolve, after the votes are sorted
ResolutionOf(sorted_options) ==
    LET top == sorted_options[1]
        second == sorted_options[2]
    IN  IF sorted_options = <<>> THEN [type |-> "deferred", winner |-> None, options |-> <<>>]
        ELSE IF /\ Len(sorted_options) >= 2
                /\ (IF top.weight > 0 THEN (top.weight - second.weight) * 10 < top.weight
                    ELSE TRUE)
        THEN [type |-> "user_decision", winner |-> None,
              options |-> SubSeq(sorted_options, 1, 2)]
        ELSE [type |-> "auto_resolved", winner |-> [position |-> top.position],
              options |-> sorted_options]

\* ConflictResolver.resolve; votes is bound to the value of the vote loop
resolve(conflict, task_type) ==
    CHOOSE resolution \in
      { ResolutionOf(SortByWeight(votes)) :
        votes \in {Votes(conflict.opinions, task_type)} } : TRUE

ConflictDetectedEvent(conflict, resolution) ==
    [type |-> "ConflictDetected", conflict |-> conflict, resolution |-> resolution]
ConflictResolvedEvent(conflict, resolution, user_choice) ==
    [type |-> "ConflictResolved", conflict |-> conflict, resolution |-> resolution,
     user_choice |-> user_choice]

\* what a registered conflict callback may return
UserChoices == {"more", "option", ""}

\* SharedContext.add_key_point
add_key_point(c, point) ==
    IF point # "" /\ ~(\E i \in 1..Len(c.key_points) : c.key_points[i] = point)
    THEN [c EXCEPT !.key_points = KeepLast20(@, First100(point))]
    ELSE c

(* ------------------------------- state --------------------------------- *)
VARIABLES
    cfg,                 \* Coordinator.__init__ arguments
    pc,                  \* position of the process() / run() generators
    available_adapters,  \* process(): the available_adapters argument (names)
    current_task,        \* Coordinator._current_task
    current_adapters,    \* Coordinator._current_adapters
    context,             \* Coordinator._context
    detected_conflict,   \* Coordinator._detected_conflict
    conflict_resolution, \* Coordinator._conflict_resolution
    state,               \* DiscussionManager.state
    max_rounds,          \* run(): local max_rounds
    round_num,           \* run(): loop variable of the round loop
    idx,                 \* run(): position of the adapter loop (1-based)
    prompt,              \* run(): the prompt built for the current turn
    response_chunks,     \* run(): response_chunks; fast path: full_response
    send_log,            \* how each adapter.send call so far ended
    disc_events,         \* events yielded by DiscussionManager.run
    callback_calls,      \* calls of the conflict callback: [at, returned]
    backend,             \* child process / HTTP stream of the send in flight
    waited,              \* timeout periods passed since the backend fell silent
    events               \* events yielded by Coordinator.process

\* a utils.retry.CircuitBreaker and the execute calls made on it
VARIABLES
    breaker_cfg,         \* failure_threshold, recovery_timeout, half_open_requests
    breaker,             \* _state, _failure_count, _last_failure_time, _half_open_count
    now,                 \* time.time()
    in_flight,           \* execute calls awaiting func
    calls,               \* execute calls made so far
    rejected,            \* execute calls that raised CircuitBreakerOpenError
    last_call,           \* the latest execute call: state found, answer, func called
    record_log,          \* outcomes recorded so far, oldest first
    last_record,         \* the latest record_success / record_failure call
    half_open_admitted   \* calls admitted since the breaker entered half_open

\* one call of utils.retry.retry_async or of AIAdapter._retry_operation
VARIABLES
    helper,              \* which of the two is running
    retry_config,        \* retry_async: config; _retry_operation: self.config
    retry_pc,            \* position of the call
    attempt,             \* loop variable
    invocations,         \* how each call of func / operation ended, oldest first
    delays,              \* the delays slept, oldest first
    last_exception,      \* last_exception / last_error
    raised               \* the exception the call ended with

\* AIAdapter._availability_cache and the is_available calls made
VARIABLES
    availability_cache,  \* name -> (result, time) or None
    cache_now,           \* time.time()
    probing,             \* is_available calls awaiting _check_availability
    checks,              \* is_available calls made so far
    invalidated,         \* names invalidated or cleared and not asked for since
    last_check           \* the latest is_available call up to its await

\* a SharedContext used through its methods
VARIABLES
    shared,              \* the SharedContext
    points_made,         \* how many different points the callers have made
    repeats,             \* how many times a caller has made a point again
    built                \* the latest build_prompt_for call, until the next change

\* a HistoryStorage and the Session objects of its caller
VARIABLES
    sessions,            \* the caller's Session objects, by id
    db,                  \* the tables sessions, messages, results; rows in rowid order
    foreign_keys,        \* whether the SQLite library enforces foreign keys
    last_op              \* the latest call on the storage and what it returned

\* a call of TaskAnalyzer.analyze
VARIABLES
    analyzer_prompt,     \* the prompt argument
    analyzed             \* the Task returned

\* a call of AISelector.select
VARIABLES
    selector_request,    \* the task, the available adapters and what ollama answers
    selected             \* what the call returned

\* a text passed through utils.text.clean_ansi
VARIABLES
    ansi_text,           \* the text, one character per element
    passes               \* what each clean_ansi call returned, each applied to the result before

\* two process() calls iterated concurrently on one Coordinator
VARIABLES
    runs,                \* each call: position, loop variables, what it read and yielded
    contexts,            \* the SharedContext each call created, by call
    self_context,        \* Coordinator._context: the call whose SharedContext it refers to, 0 for None
    discussion_state     \* DiscussionManager.state

process_vars == <<cfg, pc, available_adapters, current_task, current_adapters, context, detected_conflict,
          conflict_resolution, state, max_rounds, round_num, idx, prompt,
          response_chunks, send_log, disc_events, callback_calls, backend, waited,
          events>>
breaker_vars == <<breaker_cfg, breaker, now, in_flight, calls, rejected, last_call,
                  record_log, last_record, half_open_admitted>>
retry_vars == <<helper, retry_config, retry_pc, attempt, invocations, delays,
                last_exception, raised>>
cache_vars == <<availability_cache, cache_now, probing, checks, invalidated, last_check>>
shared_vars == <<shared, points_made, repeats, built>>
store_vars == <<sessions, db, foreign_keys, last_op>>
analyzer_vars == <<analyzer_prompt, analyzed>>
selector_vars == <<selector_request, selected>>
ansi_vars == <<ansi_text, passes>>
overlap_vars == <<runs, contexts, self_context, discussion_state>>
util_vars == <<breaker_vars, retry_vars, cache_vars, shared_vars, store_vars, analyzer_vars, selector_vars, ansi_vars, overlap_vars>>
vars == <<process_vars, util_vars>>

\* what an action of one component leaves alone
outside_breaker == <<process_vars, retry_vars, cache_vars, shared_vars, store_vars, analyzer_vars, selector_vars, ansi_vars, overlap_vars>>
outside_retry == <<process_vars, breaker_vars, cache_vars, shared_vars, store_vars, analyzer_vars, selector_vars, ansi_vars, overlap_vars>>
outside_cache == <<process_vars, breaker_vars, retry_vars, shared_vars, store_vars, analyzer_vars, selector_vars, ansi_vars, overlap_vars>>
outside_shared == <<process_vars, breaker_vars, retry_vars, cache_vars, store_vars, analyzer_vars, selector_vars, ansi_vars, overlap_vars>>
outside_analyzer == <<process_vars, breaker_vars, retry_vars, cache_vars, shared_vars,
                      store_vars, selector_vars, ansi_vars, overlap_vars>>
outside_store == <<process_vars, breaker_vars, retry_vars, cache_vars, shared_vars, analyzer_vars, selector_vars, ansi_vars, overlap_vars>>
outside_selector == <<process_vars, breaker_vars, retry_vars, cache_vars, shared_vars, store_vars, analyzer_vars, ansi_vars, overlap_vars>>

outside_ansi == <<process_vars, breaker_vars, retry_vars, cache_vars, shared_vars, store_vars, analyzer_vars, selector_vars, overlap_vars>>
outside_overlap == <<process_vars, breaker_vars, retry_vars, cache_vars, shared_vars, store_vars, analyzer_vars, selector_vars, ansi_vars>>
coord_vars == <<cfg, available_adapters, current_task, current_adapters, detected_conflict,
                conflict_resolution, callback_calls>>
loop_vars == <<max_rounds, round_num, idx>>
call_vars == <<backend, waited>>

NumChunks == Cardinality({i \in 1..Len(events) : events[i].type = "AIChunk"})

\* the calls of process(): the analyzed input, the names of the available
\* adapters in the order given, and what is_available() answers for ollama
\* inside the selector
Request(t, names, up) == [task |-> t, names |-> names, ollama_available |-> up]
Requests ==
    { Request(Task("simple_chat", 10), <<>>, TRUE),
      Request(Task("simple_chat", 10), <<"glm", "codex">>, TRUE),
      Request(Task("general", 20), <<"gemini", "claude">>, TRUE),
      Request(Task("general", 35), <<>>, TRUE),
      Request(Task("general", 35), <<"glm">>, TRUE),
      Request(Task("general", 35), <<"gemini", "claude">>, TRUE),
      Request(Task("code", 60), <<"glm", "codex">>, TRUE),
      Request(Task("code", 45), <<"ollama">>, TRUE),
      Request(Task("code", 60), <<"ollama">>, FALSE) }

\* the ways a Coordinator is constructed: one round or MaxRounds rounds;
\* the defaults with a conflict callback registered, without one, and with
\* both checks switched off
Configs ==
    { [max_rounds |-> m, enable_consensus_check |-> f[1],
       enable_conflict_detection |-> f[2], conflict_callback |-> f[3]] :
      m \in {1, MaxRounds},
      f \in { <<TRUE, TRUE, TRUE>>, <<TRUE, TRUE, FALSE>>, <<FALSE, FALSE, FALSE>> } }

\* no CircuitBreaker exists: nothing in the package constructs one
NoBreaker ==
    /\ breaker_cfg = None
    /\ breaker = None
    /\ now = 0
    /\ in_flight = 0
    /\ calls = 0
    /\ rejected = 0
    /\ last_call = None
    /\ record_log = <<>>
    /\ last_record = None
    /\ half_open_admitted = 0

\* no call of retry_async or _retry_operation is made: neither has a caller
NoRetry ==
    /\ helper = NoneStr
    /\ retry_config = None
    /\ retry_pc = "none"
    /\ attempt = 0
    /\ invocations = <<>>
    /\ delays = <<>>
    /\ last_exception = NoneStr
    /\ raised = NoneStr

\* the adapter names the availability cache is asked about
CacheNames == {"claude", "ollama"}

\* the class attribute _availability_cache = {} and no is_available call yet
EmptyCache ==
    /\ availability_cache = [n \in CacheNames |-> None]
    /\ cache_now = 0
    /\ probing = {}
    /\ checks = 0
    /\ invalidated = {}
    /\ last_check = None

\* SharedContext(original_prompt) with nothing added yet
NewSharedContext ==
    /\ shared = SharedContext
    /\ points_made = 0
    /\ repeats = 0
    /\ built = None

\* the ids of the caller's sessions
SessionIds == {"s1", "s2"}

\* Session.create
Session(id) == [id |-> id, messages |-> <<>>, result |-> None]

\* HistoryStorage._init_db on a new file, with the sessions just created;
\* the connection does not set the foreign_keys pragma, so the default the
\* library was built with applies
EmptyStore(fk) ==
    /\ sessions = [id \in SessionIds |-> Session(id)]
    /\ db = [sessions |-> {}, messages |-> <<>>, results |-> <<>>]
    /\ foreign_keys = fk
    /\ last_op = None

\* no prompt has been analyzed
NotAnalyzed(p) ==
    /\ analyzer_prompt = p
    /\ analyzed = None

\* select has not been called
NotSelected(r) ==
    /\ selector_request = r
    /\ selected = None

\* clean_ansi has not been called
NotCleaned(text) ==
    /\ ansi_text = text
    /\ passes = <<>>

\* the process() calls of the overlap model
Runs == {1, 2}

\* a process() call that has not started
IdleRun ==
    [pc |-> "idle", max_rounds |-> 0, round_num |-> 0, consensus |-> FALSE,
     conflict_contexts |-> {}, result_context |-> 0, events |-> <<>>]

\* a Coordinator on which process() has not been called
NoRuns ==
    /\ runs = [i \in Runs |-> IdleRun]
    /\ contexts = [i \in Runs |-> None]
    /\ self_context = 0
    /\ discussion_state = DiscussionState

\* the components that stay as constructed while `component` is exercised
Unused(component) ==
    /\ IF component = "breaker" THEN TRUE ELSE NoBreaker
    /\ IF component = "retry" THEN TRUE ELSE NoRetry
    /\ IF component = "cache" THEN TRUE ELSE EmptyCache
    /\ IF component = "shared" THEN TRUE ELSE NewSharedContext
    /\ IF component = "store" THEN TRUE ELSE EmptyStore(FALSE)
    /\ IF component = "analyzer" THEN TRUE ELSE NotAnalyzed("")
    /\ IF component = "selector" THEN TRUE ELSE NotSelected(None)
    /\ IF component = "ansi" THEN TRUE ELSE NotCleaned(<<>>)
    /\ IF component = "overlap" THEN TRUE ELSE NoRuns

\* Coordinator.__init__
Coordinator(c) ==
    /\ cfg = c
    /\ pc = "idle"
    /\ available_adapters = <<>>
    /\ current_task = None
    /\ current_adapters = <<>>
    /\ context = None
    /\ detected_conflict = None
    /\ conflict_resolution = None
    /\ state = DiscussionState
    /\ max_rounds = 0
    /\ round_num = 0
    /\ idx = 0
    /\ prompt = None
    /\ response_chunks = <<>>
    /\ send_log = <<>>
    /\ disc_events = <<>>
    /\ callback_calls = <<>>
    /\ backend = "none"
    /\ waited = 0
    /\ events = <<>>

Init == (\E c \in Configs : Coordinator(c)) /\ Unused("coordinator")

\* an idle Coordinator with the default settings
IdleCoordinator ==
    Coordinator([max_rounds |-> MaxRounds, enable_consensus_check |-> TRUE,
                 enable_conflict_detection |-> TRUE, conflict_callback |-> FALSE])

(* ------------------------ Coordinator.process -------------------------- *)
\* _fast_single_ai_response: adapter = available_adapters[0]
FastAdapterPrefersClaude(names) == select_single_ai(names)[1]
FastAdapter(names) == Adapter(names[1])

\* run(): max_rounds = min(task.suggested_rounds, self.config.max_rounds)
run_max_rounds_ignores_config(t, c) == t.suggested_rounds
run_max_rounds(t, c) == Min(t.suggested_rounds, c.max_rounds)

\* run(): the except clauses around adapter.send
IsCaughtTimeoutEscapes(kind) == kind = "AdapterError"
IsCaught(kind) == kind \in {"AdapterError", "TimeoutError"}

\* run(): if self.config.enable_consensus_check and round_num > 1
ShouldCheckConsensusFromRound1(c, r) == c.enable_consensus_check /\ r >= 1
ShouldCheckConsensus(c, r) == c.enable_consensus_check /\ r > 1

\* process() on the fast path up to the first adapter.send
\* (_fast_single_ai_response)
ProcessFast(t, names) ==
    /\ pc = "idle"
    /\ UNCHANGED util_vars
    /\ backend' = (IF names = <<>> THEN "none" ELSE "running")
    /\ UNCHANGED waited
    /\ IsFastPath(t)
    /\ current_task' = t
    /\ available_adapters' = names
    /\ IF names = <<>>
       THEN /\ events' = <<AIsSelectedEvent(<<>>)>>
            /\ pc' = "done"
            /\ UNCHANGED <<current_adapters, context>>
       ELSE /\ current_adapters' = <<FastAdapter(names)>>
            /\ context' = SharedContext
            /\ events' = <<AIsSelectedEvent(<<FastAdapter(names)>>),
                           AIStartEvent(FastAdapter(names).display_name)>>
            /\ pc' = "fast_send"
    /\ UNCHANGED <<cfg, detected_conflict, conflict_resolution, state, loop_vars,
                   prompt, response_chunks, send_log, disc_events, callback_calls>>

\* fast path: the adapter yields a chunk
FastChunk(chunk) ==
    /\ pc = "fast_send"
    /\ UNCHANGED util_vars
    /\ UNCHANGED call_vars
    /\ NumChunks < MaxChunks
    /\ response_chunks' = Append(response_chunks, chunk)
    /\ events' = Append(events, AIChunkEvent(current_adapters[1].display_name, chunk))
    /\ UNCHANGED <<coord_vars, pc, context, state, loop_vars, prompt, send_log,
                   disc_events>>

\* fast path: the adapter's stream ends
FastEnd ==
    /\ pc = "fast_send"
    /\ UNCHANGED util_vars
    /\ backend' = "none"
    /\ UNCHANGED waited
    /\ events' = events \o
         <<AIEndEvent(current_adapters[1].display_name, response_chunks),
           ResultEvent(FastResult(current_adapters[1], response_chunks))>>
    /\ send_log' = Append(send_log, "ok")
    /\ pc' = "done"
    /\ UNCHANGED <<coord_vars, context, state, loop_vars, prompt, response_chunks,
                   disc_events>>

\* fast path: the adapter's send raises (except Exception)
FastError(kind) ==
    /\ pc = "fast_send"
    /\ UNCHANGED util_vars
    /\ backend' = "none"
    /\ UNCHANGED waited
    /\ events' = Append(events, AIErrorEvent(current_adapters[1].display_name, kind))
    /\ send_log' = Append(send_log, kind)
    /\ pc' = "done"
    /\ UNCHANGED <<coord_vars, context, state, loop_vars, prompt, response_chunks,
                   disc_events>>

\* process() on the standard path up to the start of discussion.run, and
\* run() up to its round loop
ProcessStandard(t, names, ollama_available) ==
    /\ pc = "idle"
    /\ UNCHANGED util_vars
    /\ UNCHANGED call_vars
    /\ ~IsFastPath(t)
    /\ current_task' = t
    /\ available_adapters' = names
    /\ LET adapters == select(t, names, ollama_available)
       IN  /\ current_adapters' = adapters
           /\ IF adapters = <<>>
              THEN /\ events' = <<TaskAnalyzedEvent(t), AIsSelectedEvent(<<>>)>>
                   /\ pc' = "done"
                   /\ UNCHANGED <<context, state, max_rounds, round_num>>
              ELSE /\ events' = <<TaskAnalyzedEvent(t), AIsSelectedEvent(adapters)>>
                   /\ context' = SharedContext
                   /\ state' = DiscussionState
                   /\ max_rounds' = run_max_rounds(t, cfg)
                   /\ round_num' = 1
                   /\ pc' = IF run_max_rounds(t, cfg) >= 1
                            THEN "round_start" ELSE "complete"
    /\ UNCHANGED <<cfg, detected_conflict, conflict_resolution, idx, prompt,
                   response_chunks, send_log, disc_events, callback_calls>>

\* an event of discussion.run reaches the consumer through _convert_event
Yield(e) ==
    /\ disc_events' = Append(disc_events, e)
    /\ events' = Append(events, convert_event(e))

(* ------------------------ DiscussionManager.run ------------------------ *)
\* run(): for adapter in adapters
adapter_at_reversed(i) == current_adapters[Len(current_adapters) + 1 - i]
adapter_at(i) == current_adapters[i]

RoundStartStaleNumber ==
    /\ pc = "round_start"
    /\ UNCHANGED util_vars
    /\ UNCHANGED call_vars
    /\ state' = [state EXCEPT !.current_round = round_num]
    /\ Yield(RoundStartEvent(state.current_round, max_rounds))
    /\ idx' = 1
    /\ pc' = "turn"
    /\ UNCHANGED <<coord_vars, context, max_rounds, round_num, prompt, response_chunks,
                   send_log>>

\* top of the round loop
RoundStart ==
    /\ pc = "round_start"
    /\ UNCHANGED util_vars
    /\ UNCHANGED call_vars
    /\ state' = [state EXCEPT !.current_round = round_num]
    /\ Yield(RoundStartEvent(round_num, max_rounds))
    /\ idx' = 1
    /\ pc' = "turn"
    /\ UNCHANGED <<coord_vars, context, max_rounds, round_num, prompt, response_chunks,
                   send_log>>

\* top of the adapter loop: build the prompt, announce the turn
TurnStart ==
    /\ pc = "turn"
    /\ UNCHANGED util_vars
    /\ backend' = "running"
    /\ UNCHANGED waited
    /\ idx <= Len(current_adapters)
    /\ prompt' = build_prompt_for(context, adapter_at(idx).name, round_num = 1)
    /\ Yield(AITurnStartEvent(adapter_at(idx).display_name))
    /\ response_chunks' = <<>>
    /\ pc' = "sending"
    /\ UNCHANGED <<coord_vars, context, state, loop_vars, send_log>>

\* adapter.send yields a chunk
TurnChunk(chunk) ==
    /\ pc = "sending"
    /\ UNCHANGED util_vars
    /\ backend = "running"
    /\ UNCHANGED call_vars
    /\ NumChunks < MaxChunks
    /\ response_chunks' = Append(response_chunks, chunk)
    /\ Yield(AIChunkEvent(adapter_at(idx).display_name, chunk))
    /\ UNCHANGED <<coord_vars, pc, context, state, loop_vars, prompt, send_log>>

\* adapter.send is exhausted: record the message, end the turn
TurnEnd ==
    /\ pc = "sending"
    /\ UNCHANGED util_vars
    /\ backend = "running"
    /\ backend' = "none"
    /\ UNCHANGED waited
    /\ context' = add_message(context, adapter_at(idx).name, response_chunks,
                              round_num)
    /\ state' = [state EXCEPT !.ai_responses =
                    AppendResponse(@, adapter_at(idx).name, response_chunks)]
    /\ Yield(AITurnEndEvent(adapter_at(idx).display_name, response_chunks))
    /\ send_log' = Append(send_log, "ok")
    /\ idx' = idx + 1
    /\ pc' = "turn"
    /\ UNCHANGED <<coord_vars, max_rounds, round_num, prompt, response_chunks>>

\* adapter.send raises: AdapterError and asyncio.TimeoutError are caught and
\* the adapter loop continues; anything else leaves run() and process()
TurnError(kind) ==
    /\ pc = "sending"
    /\ UNCHANGED util_vars
    /\ backend = "running"
    /\ backend' = "none"
    /\ UNCHANGED waited
    /\ send_log' = Append(send_log, kind)
    /\ IF IsCaught(kind)
       THEN /\ Yield(AIErrorEvent(adapter_at(idx).display_name, kind))
            /\ idx' = idx + 1
            /\ pc' = "turn"
       ELSE /\ pc' = "raised"
            /\ UNCHANGED <<disc_events, events, idx>>
    /\ UNCHANGED <<coord_vars, context, state, max_rounds, round_num, prompt,
                   response_chunks>>

\* process(): if self.enable_conflict_detection and current_round >= 2
ShouldCheckConflictEveryRound(c, r) == c.enable_conflict_detection /\ r >= 1
ShouldCheckConflict(c, r) == c.enable_conflict_detection /\ r >= 2

\* end of the adapter loop: RoundEnd, then process() checks for a conflict
RoundEnd ==
    /\ pc = "turn"
    /\ UNCHANGED util_vars
    /\ UNCHANGED call_vars
    /\ idx > Len(current_adapters)
    /\ disc_events' = Append(disc_events, RoundEndEvent(round_num))
    /\ \E conflict \in {IF ShouldCheckConflict(cfg, round_num)
                         THEN detect_conflict(context, current_task.task_type)
                         ELSE None} :
       \E resolution \in {IF conflict = None THEN None
                           ELSE resolve(conflict, current_task.task_type)} :
         LET user_decision == IF conflict = None THEN FALSE
                              ELSE resolution.type = "user_decision"
         IN  /\ detected_conflict' = IF conflict = None THEN detected_conflict
                                     ELSE conflict
             /\ conflict_resolution' = IF conflict = None THEN conflict_resolution
                                       ELSE resolution
             /\ events' = events \o <<RoundEndEvent(round_num)>> \o
                    (IF conflict = None THEN <<>>
                     ELSE <<ConflictDetectedEvent(conflict, resolution)>>) \o
                    (IF user_decision /\ ~cfg.conflict_callback
                     THEN <<ConflictResolvedEvent(conflict, resolution, NoneStr)>>
                     ELSE <<>>)
             /\ pc' = IF user_decision /\ cfg.conflict_callback
                      THEN "conflict_callback" ELSE "consensus"
    /\ UNCHANGED <<cfg, available_adapters, current_task, current_adapters, context,
                   state, loop_vars, prompt, response_chunks, send_log, callback_calls>>

\* _handle_conflict_resolution: if user_choice and user_choice != 'more'
RecordsChoiceEvenMore(user_choice) == user_choice # ""
RecordsChoice(user_choice) == user_choice # "" /\ user_choice # "more"

\* _handle_conflict_resolution: the conflict callback returns
ConflictCallback(user_choice) ==
    /\ pc = "conflict_callback"
    /\ UNCHANGED util_vars
    /\ UNCHANGED call_vars
    /\ callback_calls' = Append(callback_calls,
                                [at |-> Len(events), returned |-> user_choice])
    /\ context' = IF RecordsChoice(user_choice)
                  THEN add_key_point(context, "User chose: " \o user_choice)
                  ELSE context
    /\ events' = Append(events, ConflictResolvedEvent(detected_conflict,
                                                      conflict_resolution, user_choice))
    /\ pc' = "consensus"
    /\ UNCHANGED <<cfg, available_adapters, current_task, current_adapters,
                   detected_conflict, conflict_resolution, state, loop_vars, prompt,
                   response_chunks, send_log, disc_events>>

\* run() after RoundEnd: the consensus check, then the next round or the end
ConsensusCheck ==
    /\ pc = "consensus"
    /\ UNCHANGED util_vars
    /\ UNCHANGED call_vars
    /\ IF ShouldCheckConsensus(cfg, round_num)
       THEN LET consensus == check_consensus(context)
            IN  /\ Yield(ConsensusCheckEvent(round_num, consensus))
                /\ IF consensus
                   THEN /\ state' = [state EXCEPT !.consensus_reached = TRUE]
                        /\ context' = [context EXCEPT !.consensus_reached = TRUE]
                        /\ pc' = "complete"
                        /\ UNCHANGED round_num
                   ELSE /\ UNCHANGED <<state, context>>
                        /\ IF round_num < max_rounds
                           THEN round_num' = round_num + 1 /\ pc' = "round_start"
                           ELSE UNCHANGED round_num /\ pc' = "complete"
       ELSE /\ UNCHANGED <<state, context, disc_events, events>>
            /\ IF round_num < max_rounds
               THEN round_num' = round_num + 1 /\ pc' = "round_start"
               ELSE UNCHANGED round_num /\ pc' = "complete"
    /\ UNCHANGED <<coord_vars, max_rounds, idx, prompt, response_chunks, send_log>>

CompleteResultFirst ==
    /\ pc = "complete"
    /\ UNCHANGED util_vars
    /\ UNCHANGED call_vars
    /\ state' = [state EXCEPT !.is_complete = TRUE]
    /\ disc_events' = Append(disc_events,
          DiscussionCompleteEvent(state.current_round, state.consensus_reached))
    /\ events' = events \o
          <<ResultEvent(synthesize(context)),
            DiscussionCompleteEvent(state.current_round, state.consensus_reached)>>
    /\ pc' = "done"
    /\ UNCHANGED <<coord_vars, context, loop_vars, prompt, response_chunks, send_log>>

\* run() after its loop: DiscussionComplete; then process() synthesizes
Complete ==
    /\ pc = "complete"
    /\ UNCHANGED util_vars
    /\ UNCHANGED call_vars
    /\ state' = [state EXCEPT !.is_complete = TRUE]
    /\ disc_events' = Append(disc_events,
          DiscussionCompleteEvent(state.current_round, state.consensus_reached))
    /\ events' = events \o
          <<DiscussionCompleteEvent(state.current_round, state.consensus_reached),
            ResultEvent(synthesize(context))>>
    /\ pc' = "done"
    /\ UNCHANGED <<coord_vars, context, loop_vars, prompt, response_chunks, send_log>>

(* ------------------- silent backends and cancellation ------------------ *)
\* whether send gives up on a silent backend after config.timeout seconds:
\* OllamaAdapter passes httpx.Timeout(self.config.timeout) to its stream;
\* ClaudeAdapter awaits process.stdout.read(1024) without a timeout,
\* CodexAdapter and GeminiAdapter poll again as long as the child is alive
honours_timeout(adapter) == adapter.name = "ollama"

\* the backend of the send in flight stops producing output without closing
\* its stream
Hang ==
    /\ pc = "sending"
    /\ UNCHANGED util_vars
    /\ backend = "running"
    /\ backend' = "hung"
    /\ UNCHANGED <<coord_vars, pc, context, state, loop_vars, prompt, response_chunks,
                   send_log, disc_events, waited, events>>

\* config.timeout seconds pass while send waits on the silent backend; a
\* send with a timeout does not wait a second period
Wait ==
    /\ pc = "sending"
    /\ UNCHANGED util_vars
    /\ backend = "hung"
    /\ waited < MaxWaits
    /\ ~(honours_timeout(adapter_at(idx)) /\ waited >= 1)
    /\ waited' = waited + 1
    /\ UNCHANGED <<coord_vars, pc, context, state, loop_vars, prompt, response_chunks,
                   send_log, disc_events, backend, events>>

\* the timeout of the send passes: send raises AdapterTimeoutError, which
\* run() catches as an AdapterError after this one call of send
SendTimeout ==
    /\ pc = "sending"
    /\ UNCHANGED util_vars
    /\ backend = "hung"
    /\ waited >= 1
    /\ honours_timeout(adapter_at(idx))
    /\ backend' = "none"
    /\ waited' = 0
    /\ send_log' = Append(send_log, "AdapterTimeoutError")
    /\ Yield(AIErrorEvent(adapter_at(idx).display_name, "AdapterTimeoutError"))
    /\ idx' = idx + 1
    /\ pc' = "turn"
    /\ UNCHANGED <<coord_vars, context, state, max_rounds, round_num, prompt,
                   response_chunks>>

\* the consumer's task is cancelled while adapter.send is awaited:
\* CancelledError is raised inside send, is caught neither by send's
\* `except Exception` nor by run() and leaves process(); no statement runs
\* on its way
Cancel ==
    /\ pc \in {"sending", "fast_send"}
    /\ UNCHANGED util_vars
    /\ pc' = "cancelled"
    /\ UNCHANGED <<coord_vars, context, state, loop_vars, prompt, response_chunks,
                   send_log, disc_events, call_vars, events>>

\* the steps of a run whose adapter streams all end and whose consumer keeps
\* iterating
Responsive ==
    \/ \E r \in Requests : ProcessFast(r.task, r.names)
    \/ \E r \in Requests : ProcessStandard(r.task, r.names, r.ollama_available)
    \/ \E chunk \in ChunkTexts : FastChunk(chunk)
    \/ FastEnd
    \/ \E kind \in AdapterErrorKinds : FastError(kind)
    \/ RoundStart
    \/ TurnStart
    \/ \E chunk \in ChunkTexts : TurnChunk(chunk)
    \/ TurnEnd
    \/ \E kind \in AdapterErrorKinds : TurnError(kind)
    \/ RoundEnd
    \/ \E user_choice \in UserChoices : ConflictCallback(user_choice)
    \/ ConsensusCheck
    \/ Complete

Next ==
    \/ Responsive
    \/ Hang
    \/ Wait
    \/ SendTimeout
    \/ Cancel

Spec == Init /\ [][Next]_vars

\* the consumer keeps iterating and every adapter stream ends, so the
\* single-threaded generator always takes its next step
FairSpec == Init /\ [][Responsive]_vars /\ WF_vars(Responsive)

\* a Coordinator whose DiscussionConfig allows one round more, with a
\* conflict callback registered, and a consumer that reads every stream to
\* its end
LongInit ==
    /\ Coordinator([max_rounds |-> MaxRounds + 1, enable_consensus_check |-> TRUE,
                    enable_conflict_detection |-> TRUE, conflict_callback |-> TRUE])
    /\ Unused("coordinator")

LongSpec == LongInit /\ [][Responsive]_vars

(* ==================== utils.retry.CircuitBreaker ======================= *)
\* _last_failure_time = None
NoTime == -1

\* the breakers constructed: failure_threshold 1, 2 or 3, recovery_timeout 2
\* clock units, half_open_requests 1 or 2
BreakerConfigs ==
    { [failure_threshold |-> th, recovery_timeout |-> 2, half_open_requests |-> h] :
      th \in {1, 2, 3}, h \in {1, 2} }

\* CircuitBreaker.__init__
CircuitBreaker ==
    [state |-> "closed", failure_count |-> 0, last_failure_time |-> NoTime,
     half_open_count |-> 0]

\* CircuitBreaker.record_success
record_success_keeps_count(b) ==
    IF b.state = "half_open"
    THEN [b EXCEPT !.state = "closed", !.failure_count = 0]
    ELSE b
record_success(b) ==
    IF b.state = "half_open"
    THEN [b EXCEPT !.state = "closed", !.failure_count = 0]
    ELSE [b EXCEPT !.failure_count = 0]

\* CircuitBreaker.record_failure at clock reading t
record_failure_opens_late(b, c, t) ==
    [b EXCEPT !.failure_count = @ + 1,
              !.last_failure_time = t,
              !.state = IF b.failure_count + 1 > c.failure_threshold THEN "open" ELSE @]
record_failure(b, c, t) ==
    [b EXCEPT !.failure_count = @ + 1,
              !.last_failure_time = t,
              !.state = IF b.failure_count + 1 >= c.failure_threshold THEN "open" ELSE @]

\* CircuitBreaker.can_execute at clock reading t: the answer and the breaker
\* it leaves
can_execute_ignores_timeout(b, c, t) ==
    CASE b.state = "closed" -> [ok |-> TRUE, breaker |-> b]
      [] b.state = "open" ->
           [ok |-> TRUE, breaker |-> [b EXCEPT !.state = "half_open", !.half_open_count = 0]]
      [] b.state = "half_open" ->
           IF b.half_open_count < c.half_open_requests
           THEN [ok |-> TRUE, breaker |-> [b EXCEPT !.half_open_count = @ + 1]]
           ELSE [ok |-> FALSE, breaker |-> b]
can_execute(b, c, t) ==
    CASE b.state = "closed" -> [ok |-> TRUE, breaker |-> b]
      [] b.state = "open" ->
           IF b.last_failure_time = NoTime THEN [ok |-> TRUE, breaker |-> b]
           ELSE IF t - b.last_failure_time >= c.recovery_timeout
           THEN [ok |-> TRUE,
                 breaker |-> [b EXCEPT !.state = "half_open", !.half_open_count = 0]]
           ELSE [ok |-> FALSE, breaker |-> b]
      [] b.state = "half_open" ->
           IF b.half_open_count < c.half_open_requests
           THEN [ok |-> TRUE, breaker |-> [b EXCEPT !.half_open_count = @ + 1]]
           ELSE [ok |-> FALSE, breaker |-> b]

\* a CircuitBreaker is constructed next to an idle Coordinator with the
\* default settings
BreakerInit ==
    /\ Coordinator([max_rounds |-> MaxRounds, enable_consensus_check |-> TRUE,
                    enable_conflict_detection |-> TRUE, conflict_callback |-> FALSE])
    /\ Unused("breaker")
    /\ breaker_cfg \in BreakerConfigs
    /\ breaker = CircuitBreaker
    /\ now = 0
    /\ in_flight = 0
    /\ calls = 0
    /\ rejected = 0
    /\ last_call = None
    /\ record_log = <<>>
    /\ last_record = None
    /\ half_open_admitted = 0

\* execute up to its await: can_execute, then CircuitBreakerOpenError or the
\* call of func
Execute ==
    /\ calls < MaxCalls
    /\ calls' = calls + 1
    /\ \E r \in {can_execute(breaker, breaker_cfg, now)} :
         /\ breaker' = r.breaker
         /\ IF r.ok
            THEN in_flight' = in_flight + 1 /\ UNCHANGED rejected
            ELSE rejected' = rejected + 1 /\ UNCHANGED in_flight
         /\ last_call' =
               [before |-> breaker.state,
                early |-> /\ breaker.last_failure_time # NoTime
                          /\ now - breaker.last_failure_time < breaker_cfg.recovery_timeout,
                admitted |-> r.ok,
                invoked |-> in_flight' > in_flight]
         /\ half_open_admitted' =
               IF r.ok /\ r.breaker.state = "half_open"
               THEN (IF breaker.state = "half_open" THEN half_open_admitted + 1 ELSE 1)
               ELSE half_open_admitted
    /\ UNCHANGED <<outside_breaker, breaker_cfg, now, record_log, last_record>>

\* the record made when a call of func is over
Record(outcome, b) ==
    [outcome |-> outcome, before |-> breaker.state, after |-> b.state,
     failure_count |-> b.failure_count]

\* execute after its await: func returned
FuncReturns ==
    /\ in_flight > 0
    /\ in_flight' = in_flight - 1
    /\ \E b \in {record_success(breaker)} :
         /\ breaker' = b
         /\ last_record' = Record("success", b)
         /\ half_open_admitted' = IF b.state = "half_open" THEN half_open_admitted ELSE 0
    /\ record_log' = Append(record_log, "success")
    /\ UNCHANGED <<outside_breaker, breaker_cfg, now, calls, rejected, last_call>>

\* execute after its await: func raised
FuncRaises ==
    /\ in_flight > 0
    /\ in_flight' = in_flight - 1
    /\ \E b \in {record_failure(breaker, breaker_cfg, now)} :
         /\ breaker' = b
         /\ last_record' = Record("failure", b)
         /\ half_open_admitted' = IF b.state = "half_open" THEN half_open_admitted ELSE 0
    /\ record_log' = Append(record_log, "failure")
    /\ UNCHANGED <<outside_breaker, breaker_cfg, now, calls, rejected, last_call>>

\* the clock advances
Tick ==
    /\ now < MaxTime
    /\ now' = now + 1
    /\ UNCHANGED <<outside_breaker, breaker_cfg, breaker, in_flight, calls, rejected,
                   last_call, record_log, last_record, half_open_admitted>>

BreakerNext ==
    \/ Execute
    \/ FuncReturns
    \/ FuncRaises
    \/ Tick

BreakerSpec == BreakerInit /\ [][BreakerNext]_vars

\* every func awaited by execute returns or raises, and the clock advances
BreakerFairSpec ==
    /\ BreakerInit
    /\ [][BreakerNext]_vars
    /\ WF_vars(FuncReturns \/ FuncRaises)
    /\ WF_vars(Tick)

(* ---------------- utils.retry.retry_async, _retry_operation ------------- *)
\* the largest max_retries a caller passes besides the default
MaxRetries == 2

\* the classes an exception is an instance of
Bases(e) ==
    CASE e = "TimeoutError" -> {"TimeoutError", "OSError", "Exception"}
      [] e = "ConnectionError" -> {"ConnectionError", "OSError", "Exception"}
      [] e = "ValueError" -> {"ValueError", "Exception"}
      [] e = "TypeError" -> {"TypeError", "Exception"}
      [] e = "AdapterError" -> {"AdapterError", "Exception"}
      [] e = "AdapterTimeoutError" -> {"AdapterTimeoutError", "AdapterError", "Exception"}
      [] e = "AdapterConnectionError" -> {"AdapterConnectionError", "AdapterError", "Exception"}
      [] e = "AdapterRateLimitError" -> {"AdapterRateLimitError", "AdapterError", "Exception"}
      [] e = "AdapterNotAvailableError" -> {"AdapterNotAvailableError", "AdapterError", "Exception"}

isinstance(e, classes) == Bases(e) \cap classes # {}

\* RetryConfig.__init__; delays are in milliseconds, retry_on = {} stands for
\* None and for the empty tuple
RetryConfig(max, base_delay, max_delay, exponential_base, jitter, retry_on) ==
    [max_retries |-> max, base_delay |-> base_delay, max_delay |-> max_delay,
     exponential_base |-> exponential_base, jitter |-> jitter,
     retry_on |-> IF retry_on = {} THEN {"Exception"} ELSE retry_on]

\* RetryConfig()
DefaultRetryConfig == RetryConfig(3, 1000, 30000, 2, TRUE, {})

\* the configurations retry_async is called with: none (the default), and
\* those of the tests with and without jitter
RetryConfigs ==
    {DefaultRetryConfig} \cup
    { RetryConfig(m, 10000, 15000, 2, j, r) :
        m \in 0..MaxRetries, j \in BOOLEAN,
        r \in {{"ConnectionError"}, {"TimeoutError", "ConnectionError"}} }

\* AdapterConfig: max_retries and retry_delay
AdapterConfigs ==
    { [max_retries |-> m, retry_delay |-> 1000] : m \in {0, MaxRetries, max_retries} }

\* how a call of func (retry_async) and of operation (_retry_operation) ends
FuncErrors == {"TimeoutError", "ConnectionError", "ValueError"}
OperationErrors ==
    {"AdapterTimeoutError", "AdapterConnectionError", "AdapterRateLimitError",
     "AdapterNotAvailableError", "ValueError"}

\* random.uniform(0, 0.25), in percent
Jitters == {0, 12, 24}

RECURSIVE Pow(_, _)
Pow(b, n) == IF n = 0 THEN 1 ELSE b * Pow(b, n - 1)

\* calculate_delay, u the value random.uniform returns
calculate_delay_uncapped(n, config, u) ==
    LET delay == config.base_delay * Pow(config.exponential_base, n)
    IN  IF config.jitter THEN delay + (delay * u) \div 100 ELSE delay

calculate_delay(n, config, u) ==
    LET delay == Min(config.base_delay * Pow(config.exponential_base, n),
                     config.max_delay)
    IN  IF config.jitter THEN delay + (delay * u) \div 100 ELSE delay

\* range(n)
range_inclusive(n) == 0..n

range(n) == 0..(n - 1)

\* the except clauses of retry_async: what follows the exception e of the
\* attempt n
retry_async_except(config, n, e, u) ==
    IF isinstance(e, config.retry_on)
    THEN [caught |-> TRUE, raise |-> NoneStr,
          sleep |-> n < config.max_retries,
          delay |-> calculate_delay(n, config, u)]
    ELSE [caught |-> FALSE, raise |-> e, sleep |-> FALSE, delay |-> 0]

\* the except clauses of _retry_operation
retry_operation_except(config, n, e) ==
    CASE isinstance(e, {"AdapterTimeoutError", "AdapterConnectionError"}) ->
           [caught |-> TRUE, raise |-> NoneStr, sleep |-> n < config.max_retries,
            delay |-> config.retry_delay * Pow(2, n)]
      [] isinstance(e, {"AdapterRateLimitError"}) ->
           [caught |-> TRUE, raise |-> NoneStr, sleep |-> TRUE,
            delay |-> Min(30000, config.retry_delay * Pow(3, n))]
      [] isinstance(e, {"AdapterError"})
           /\ ~isinstance(e, {"AdapterTimeoutError", "AdapterConnectionError",
                              "AdapterRateLimitError"}) ->
           [caught |-> FALSE, raise |-> e, sleep |-> FALSE, delay |-> 0]
      [] OTHER ->
           [caught |-> FALSE, raise |-> "AdapterError", sleep |-> FALSE, delay |-> 0]

\* a call of retry_async(func, config = ...) or of _retry_operation(operation)
\* starts next to an idle Coordinator
RetryInit ==
    /\ IdleCoordinator
    /\ Unused("retry")
    /\ \/ helper = "retry_async" /\ retry_config \in RetryConfigs
       \/ helper = "_retry_operation" /\ retry_config \in AdapterConfigs
    /\ retry_pc = "calling"
    /\ attempt = 0
    /\ invocations = <<>>
    /\ delays = <<>>
    /\ last_exception = NoneStr
    /\ raised = NoneStr

\* the awaited func / operation returns: its result is returned
AttemptReturns ==
    /\ retry_pc = "calling"
    /\ attempt \in range(retry_config.max_retries + 1)
    /\ invocations' = Append(invocations, "ok")
    /\ retry_pc' = "returned"
    /\ UNCHANGED <<outside_retry, helper, retry_config, attempt, delays,
                   last_exception, raised>>

\* the awaited func / operation raises: the except clauses, up to the sleep
AttemptRaises ==
    /\ retry_pc = "calling"
    /\ attempt \in range(retry_config.max_retries + 1)
    /\ \E e \in IF helper = "retry_async" THEN FuncErrors ELSE OperationErrors :
       \E u \in Jitters :
       \E x \in { IF helper = "retry_async"
                  THEN retry_async_except(retry_config, attempt, e, u)
                  ELSE retry_operation_except(retry_config, attempt, e) } :
         /\ invocations' = Append(invocations, e)
         /\ IF x.caught
            THEN /\ last_exception' = e
                 /\ UNCHANGED raised
                 /\ IF x.sleep
                    THEN /\ delays' = Append(delays, x.delay)
                         /\ retry_pc' = "sleeping"
                         /\ UNCHANGED attempt
                    ELSE /\ attempt' = attempt + 1
                         /\ UNCHANGED <<delays, retry_pc>>
            ELSE /\ raised' = x.raise
                 /\ retry_pc' = "raised"
                 /\ UNCHANGED <<last_exception, delays, attempt>>
    /\ UNCHANGED <<outside_retry, helper, retry_config>>

\* asyncio.sleep(delay) is over: the next pass of the loop
SleepEnds ==
    /\ retry_pc = "sleeping"
    /\ retry_pc' = "calling"
    /\ attempt' = attempt + 1
    /\ UNCHANGED <<outside_retry, helper, retry_config, invocations, delays,
                   last_exception, raised>>

\* the loop is over: raise last_exception / raise last_error or AdapterError
Exhausted ==
    /\ retry_pc = "calling"
    /\ attempt \notin range(retry_config.max_retries + 1)
    /\ retry_pc' = "raised"
    /\ raised' =
          IF last_exception # NoneStr THEN last_exception
          ELSE IF helper = "retry_async" THEN "TypeError" ELSE "AdapterError"
    /\ UNCHANGED <<outside_retry, helper, retry_config, attempt, invocations, delays,
                   last_exception>>

RetryNext ==
    \/ AttemptReturns
    \/ AttemptRaises
    \/ SleepEnds
    \/ Exhausted

RetrySpec == RetryInit /\ [][RetryNext]_vars

(* ----------------------- AIAdapter.is_available ------------------------ *)
CACHE_TTL == 30
\* the seconds between two looks at the clock, and how many the clock makes
ClockStep == 15
MaxClockSteps == 2
\* the is_available calls made
MaxChecks == 3

\* is_available: the cached result is used
cache_hit(cache, name, t) ==
    /\ cache[name] # None
    /\ t - cache[name].time < CACHE_TTL

\* is_available up to the await of _check_availability
IsAvailable ==
    /\ checks < MaxChecks
    /\ checks' = checks + 1
    /\ \E name \in CacheNames :
         /\ last_check' =
               [name |-> name,
                had_entry |-> availability_cache[name] # None,
                age |-> IF availability_cache[name] # None
                        THEN cache_now - availability_cache[name].time ELSE 0,
                cached |-> IF availability_cache[name] # None
                           THEN availability_cache[name].result ELSE FALSE,
                probed |-> ~cache_hit(availability_cache, name, cache_now),
                returned |-> IF cache_hit(availability_cache, name, cache_now)
                             THEN availability_cache[name].result ELSE FALSE,
                after_invalidate |-> name \in invalidated]
         /\ probing' =
               IF cache_hit(availability_cache, name, cache_now) THEN probing
               ELSE probing \cup {[id |-> checks + 1, name |-> name, now |-> cache_now]}
         /\ invalidated' = invalidated \ {name}
    /\ UNCHANGED <<outside_cache, availability_cache, cache_now>>

\* is_available after the await: _check_availability returned result
CheckAvailabilityReturns ==
    /\ \E call \in probing : \E result \in BOOLEAN :
         /\ availability_cache' =
               [availability_cache EXCEPT ![call.name] = [result |-> result, time |-> call.now]]
         /\ probing' = probing \ {call}
    /\ UNCHANGED <<outside_cache, cache_now, checks, invalidated, last_check>>

clear_availability_cache ==
    /\ availability_cache' = [n \in CacheNames |-> None]
    /\ invalidated' = CacheNames
    /\ UNCHANGED <<outside_cache, cache_now, probing, checks, last_check>>

invalidate_cache ==
    /\ \E adapter_name \in CacheNames :
         /\ availability_cache' = [availability_cache EXCEPT ![adapter_name] = None]
         /\ invalidated' = invalidated \cup {adapter_name}
    /\ UNCHANGED <<outside_cache, cache_now, probing, checks, last_check>>

\* time passes
ClockAdvances ==
    /\ cache_now < MaxClockSteps * ClockStep
    /\ cache_now' = cache_now + ClockStep
    /\ UNCHANGED <<outside_cache, availability_cache, probing, checks, invalidated,
                   last_check>>

CacheInit == IdleCoordinator /\ Unused("cache") /\ EmptyCache

CacheNext ==
    \/ IsAvailable
    \/ CheckAvailabilityReturns
    \/ clear_availability_cache
    \/ invalidate_cache
    \/ ClockAdvances

CacheSpec == CacheInit /\ [][CacheNext]_vars

(* ------------------- SharedContext used on its own --------------------- *)
\* the different points made, the points made again, the messages with a
\* bulleted line, the messages of plain text
MaxPoints == 21
MaxRepeats == 1
MaxPointMessages == 1
MaxMessages == 3

\* 150 characters
Padding ==
    "0123456789012345678901234567890123456789012345678901234567890123456789012345678901234567890123456789012345678901234567890123456789012345678901234567890123456789"

\* the i-th point as its author writes it, a bulleted line; some are longer
\* than 100 characters
PointText(i) ==
    IF i % 4 = 3 THEN "- point " \o ToString(i) \o " " \o Padding
    ELSE "- point " \o ToString(i)

\* the same point as another author writes it
PointTextCapitals(i) ==
    IF i % 4 = 3 THEN "- POINT " \o ToString(i) \o " " \o Padding
    ELSE "- POINT " \o ToString(i)

\* what the next add_key_point call, or the bulleted line of the next
\* message, can be: a new point, or one of the two latest points again,
\* written the same way or in capitals
PointsOffered ==
    (IF points_made < MaxPoints THEN {[text |-> PointText(points_made + 1), new |-> TRUE]}
     ELSE {})
    \cup
    (IF repeats < MaxRepeats
     THEN { [text |-> t, new |-> FALSE] :
            t \in UNION { {PointText(i), PointTextCapitals(i)} :
                          i \in {j \in {points_made - 1, points_made} : j >= 1} } }
     ELSE {})

\* add_key_point(point)
AddKeyPoint ==
    /\ \E p \in PointsOffered \cup {[text |-> "", new |-> FALSE]} :
         /\ shared' = add_key_point(shared, p.text)
         /\ points_made' = IF p.new THEN points_made + 1 ELSE points_made
         /\ repeats' = IF p.new \/ p.text = "" THEN repeats ELSE repeats + 1
    /\ built' = None
    /\ UNCHANGED outside_shared

\* add_message(ai_name, content, round_num) with a content that ends in a
\* bulleted line
AddMessageWithPoint ==
    /\ Len(shared.messages) < MaxPointMessages
    /\ \E p \in PointsOffered :
         /\ shared' = add_message(shared, "gemini", <<"agree ", p.text>>, 1)
         /\ points_made' = IF p.new THEN points_made + 1 ELSE points_made
         /\ repeats' = IF p.new THEN repeats ELSE repeats + 1
    /\ built' = None
    /\ UNCHANGED outside_shared

KeyPointInit == IdleCoordinator /\ Unused("shared") /\ NewSharedContext

KeyPointNext ==
    \/ AddKeyPoint
    \/ AddMessageWithPoint

KeyPointSpec == KeyPointInit /\ [][KeyPointNext]_vars

\* add_message(ai_name, content, round_num) with a content of plain text
AddMessage ==
    /\ Len(shared.messages) < MaxMessages
    /\ \E ai_name \in {"claude", "gemini"} : \E content \in {<<"agree ">>, <<"BUT ">>} :
         shared' = add_message(shared, ai_name, content, 1)
    /\ built' = None
    /\ UNCHANGED <<outside_shared, points_made, repeats>>

\* build_prompt_for(ai_name, is_first_round)
BuildPrompt ==
    /\ built = None
    /\ \E is_first_round \in BOOLEAN :
         built' = [is_first_round |-> is_first_round,
                   before |-> shared,
                   prompt |-> build_prompt_for(shared, "claude", is_first_round)]
    /\ UNCHANGED <<outside_shared, shared, points_made, repeats>>

PromptInit == IdleCoordinator /\ Unused("shared") /\ NewSharedContext

PromptNext ==
    \/ AddMessage
    \/ BuildPrompt

PromptSpec == PromptInit /\ [][PromptNext]_vars

(* ---------------------------- HistoryStorage --------------------------- *)
\* the messages in existence at a time, and the values datetime.now() takes
MaxSessionMessages == 2
MaxStamp == 2

\* datetime.isoformat and datetime.fromisoformat
isoformat(t) == <<"iso", t>>
fromisoformat(text) == text[2]

\* HistoryMessage.create
HistoryMessage(session_id, n, created_at) ==
    [id |-> <<session_id, "m", n>>, session_id |-> session_id, content |-> <<"content", n>>,
     created_at |-> created_at]

\* SessionResult.create
SessionResult(session_id, consensus_reached, created_at) ==
    [id |-> <<session_id, "r">>, session_id |-> session_id,
     consensus_reached |-> consensus_reached, created_at |-> created_at]

\* the rows of a table without those at the positions `gone`
Without(rows, gone) ==
    [i \in 1..Cardinality({j \in 1..Len(rows) : j \notin gone})
       |-> rows[CHOOSE j \in 1..Len(rows) :
                  /\ j \notin gone
                  /\ Cardinality({k \in 1..j : k \notin gone}) = i]]

\* INSERT OR REPLACE: the rows in conflict with the new row go, the new row
\* gets the next rowid
InsertOrReplace(rows, row, conflicting) == Append(Without(rows, conflicting), row)

\* the message loop of save_session
RECURSIVE save_messages(_, _)
save_messages(rows, msgs) ==
    IF msgs = <<>> THEN rows
    ELSE LET msg == Head(msgs)
             row == [id |-> msg.id, session_id |-> msg.session_id,
                     content |-> msg.content, created_at |-> isoformat(msg.created_at)]
         IN  save_messages(
                 InsertOrReplace(rows, row, {j \in 1..Len(rows) : rows[j].id = msg.id}),
                 Tail(msgs))

\* HistoryStorage.save_session
save_session(d, session) ==
    [sessions |-> d.sessions \cup {session.id},
     messages |-> save_messages(d.messages, session.messages),
     results |->
        IF session.result # None
        THEN InsertOrReplace(
                 d.results,
                 [id |-> session.result.id, session_id |-> session.result.session_id,
                  consensus_reached |-> IF session.result.consensus_reached THEN 1 ELSE 0,
                  created_at |-> isoformat(session.result.created_at)],
                 {j \in 1..Len(d.results) :
                     \/ d.results[j].id = session.result.id
                     \/ d.results[j].session_id = session.result.session_id})
        ELSE d.results]

\* _row_to_message and _row_to_result
row_to_message(row) ==
    [id |-> row.id, session_id |-> row.session_id, content |-> row.content,
     created_at |-> fromisoformat(row.created_at)]
row_to_result(row) ==
    [id |-> row.id, session_id |-> row.session_id,
     consensus_reached |-> row.consensus_reached # 0,
     created_at |-> fromisoformat(row.created_at)]

\* SELECT * FROM messages WHERE session_id = ? ORDER BY created_at: the
\* orders the rows can come in; rows with equal created_at come in any order
select_messages(d, session_id) ==
    LET found == {j \in 1..Len(d.messages) : d.messages[j].session_id = session_id}
        n == Cardinality(found)
        orders == { f \in [1..n -> found] :
                      /\ \A a, b \in 1..n : a # b => f[a] # f[b]
                      /\ \A a, b \in 1..n :
                            a < b => d.messages[f[a]].created_at[2]
                                       <= d.messages[f[b]].created_at[2] }
    IN  { [i \in 1..n |-> d.messages[f[i]]] : f \in orders }

\* HistoryStorage.get_session, rows being the fetched message rows
get_session(d, session_id, rows) ==
    IF session_id \notin d.sessions THEN None
    ELSE [id |-> session_id,
          messages |-> [i \in 1..Len(rows) |-> row_to_message(rows[i])],
          result |->
             IF \E j \in 1..Len(d.results) : d.results[j].session_id = session_id
             THEN row_to_result(
                     d.results[CHOOSE j \in 1..Len(d.results) :
                                  d.results[j].session_id = session_id])
             ELSE None]

\* DELETE FROM sessions WHERE id = ?; ON DELETE CASCADE acts when foreign
\* keys are enforced
delete_session(d, fk, session_id) ==
    [sessions |-> d.sessions \ {session_id},
     messages |-> IF fk
                  THEN Without(d.messages,
                           {j \in 1..Len(d.messages) : d.messages[j].session_id = session_id})
                  ELSE d.messages,
     results |-> IF fk
                 THEN Without(d.results,
                          {j \in 1..Len(d.results) : d.results[j].session_id = session_id})
                 ELSE d.results]

\* the numbers of the messages held by a session object or by a row
MessageNumbers ==
    UNION { {sessions[id].messages[j].id[3] : j \in 1..Len(sessions[id].messages)} :
              id \in SessionIds }
    \cup {db.messages[j].id[3] : j \in 1..Len(db.messages)}

\* uuid.uuid4() in HistoryMessage.create: an id no message has
FreshMessageNumbers == (1..MaxSessionMessages) \ MessageNumbers

\* Session(id=..., ...), the dataclass constructor: a new object for an id
\* the caller used before, with no messages and no result
NewSession ==
    /\ \E id \in SessionIds :
         /\ sessions[id] # Session(id)
         /\ sessions' = [sessions EXCEPT ![id] = Session(id)]
    /\ UNCHANGED <<outside_store, db, foreign_keys, last_op>>

\* Session.add_message; created_at is datetime.now()
SessionAddMessage ==
    /\ \E id \in SessionIds : \E t \in 1..MaxStamp :
         /\ FreshMessageNumbers # {}
         /\ sessions' = [sessions EXCEPT ![id].messages =
                            Append(@, HistoryMessage(id,
                                         CHOOSE n \in FreshMessageNumbers :
                                            \A k \in FreshMessageNumbers : n <= k, t))]
    /\ UNCHANGED <<outside_store, db, foreign_keys, last_op>>

\* Session.set_result
SessionSetResult ==
    /\ \E id \in SessionIds :
         /\ sessions[id].result = None
         /\ sessions' = [sessions EXCEPT ![id].result = SessionResult(id, TRUE, MaxStamp)]
    /\ UNCHANGED <<outside_store, db, foreign_keys, last_op>>

SaveSession ==
    /\ \E id \in SessionIds :
         /\ db' = save_session(db, sessions[id])
         /\ last_op' = [op |-> "save", id |-> id, session |-> sessions[id]]
    /\ UNCHANGED <<outside_store, sessions, foreign_keys>>

GetSession ==
    /\ \E id \in SessionIds : \E rows \in select_messages(db, id) :
         last_op' = [op |-> "get", id |-> id,
                     returned |-> get_session(db, id, rows),
                     saved |-> IF last_op # None /\ last_op.op = "save" /\ last_op.id = id
                               THEN last_op.session ELSE None]
    /\ UNCHANGED <<outside_store, sessions, db, foreign_keys>>

DeleteSession ==
    /\ \E id \in SessionIds :
         /\ db' = delete_session(db, foreign_keys, id)
         /\ last_op' = [op |-> "delete", id |-> id, returned |-> id \in db.sessions]
    /\ UNCHANGED <<outside_store, sessions, foreign_keys>>

StoreInit == IdleCoordinator /\ Unused("store") /\ \E fk \in BOOLEAN : EmptyStore(fk)

StoreNext ==
    \/ NewSession
    \/ SessionAddMessage
    \/ SessionSetResult
    \/ SaveSession
    \/ GetSession
    \/ DeleteSession

StoreSpec == StoreInit /\ [][StoreNext]_vars

(* ------------------------- TaskAnalyzer.analyze ------------------------ *)
\* the words a modelled prompt has at most
MaxWords == 5

Capitals == "ABCDEFGHIJKLMNOPQRSTUVWXYZ"
Smalls == "abcdefghijklmnopqrstuvwxyz"

\* str.lower(), character by character
LowerChar(c) ==
    IF \E i \in 1..26 : SubSeq(Capitals, i, i) = c
    THEN LET i == CHOOSE i \in 1..26 : SubSeq(Capitals, i, i) = c IN SubSeq(Smalls, i, i)
    ELSE c

RECURSIVE str_lower(_)
str_lower(s) ==
    IF s = "" THEN "" ELSE LowerChar(SubSeq(s, 1, 1)) \o str_lower(SubSeq(s, 2, Len(s)))

\* str.strip() of a text whose only white space is the blank
RECURSIVE strip(_)
strip(s) ==
    IF s = "" THEN s
    ELSE IF SubSeq(s, 1, 1) = " " THEN strip(SubSeq(s, 2, Len(s)))
    ELSE IF SubSeq(s, Len(s), Len(s)) = " " THEN strip(SubSeq(s, 1, Len(s) - 1))
    ELSE s

\* `pattern in text`
Contains(text, pattern) ==
    \E i \in 1..(Len(text) - Len(pattern) + 1) :
       SubSeq(text, i, i + Len(pattern) - 1) = pattern

\* the positions where a word of text.split() starts
WordStarts(text) ==
    { i \in 1..Len(text) :
        /\ SubSeq(text, i, i) # " "
        /\ (i = 1 \/ SubSeq(text, i - 1, i - 1) = " ") }

\* text.split(), and re.findall(r'\b\w+\b', text) for a text of letters and
\* blanks
split(text) ==
    LET starts == WordStarts(text)
        n == Cardinality(starts)
        start(k) == CHOOSE i \in starts : Cardinality({j \in starts : j <= i}) = k
        stop(i) == IF \E j \in i..Len(text) : SubSeq(text, j, j) = " "
                   THEN (CHOOSE j \in i..Len(text) :
                           /\ SubSeq(text, j, j) = " "
                           /\ \A h \in i..(j - 1) : SubSeq(text, h, h) # " ") - 1
                   ELSE Len(text)
    IN  [k \in 1..n |-> SubSeq(text, start(k), stop(start(k)))]

\* re.search(r"\b(w1|w2|...)\b", text) for a text of letters and blanks
SearchWords(text, words) ==
    \E w \in words : \E i \in 1..(Len(text) - Len(w) + 1) :
       /\ SubSeq(text, i, i + Len(w) - 1) = w
       /\ (i = 1 \/ SubSeq(text, i - 1, i - 1) = " ")
       /\ (i + Len(w) - 1 = Len(text) \/ SubSeq(text, i + Len(w), i + Len(w)) = " ")

\* the entries of the pattern lists that a text in Latin letters can match
SIMPLE_PATTERNS ==
    {"hi", "hello", "good morning", "good night", "thx", "thanks", "thank you", "thank",
     "ok", "okay", "yes", "no", "sure", "bye"}
SIMPLE_MAX_LENGTH == 15
technical_indicators ==
    {"code", "function", "implement", "bug", "error", "debug", "design", "architecture",
     "analyze", "compare", "create", "make", "build"}
CODE_PATTERNS ==
    <<{"code", "implement", "function", "class"}, {"program", "script", "algorithm"},
      {"python", "javascript", "typescript", "java", "rust", "go"}>>
DESIGN_PATTERNS ==
    <<{"design", "architecture", "structure"}, {"api", "interface", "schema"},
      {"system", "database"}>>
ANALYSIS_PATTERNS ==
    <<{"analyze", "analysis", "evaluate", "review"}, {"compare", "comparison", "pros", "cons"},
      {"optimize", "performance"}>>
CREATIVE_PATTERNS ==
    <<{"idea", "creative", "brainstorm"}, {"new", "innovative", "unique"}>>
RESEARCH_PATTERNS ==
    <<{"research", "find", "search"}, {"trend", "latest", "current"}>>
DEBUG_PATTERNS ==
    <<{"bug", "error", "fix", "debug"}, {"doesn't work", "not working", "problem", "issue"}>>
EXPLAIN_PATTERNS ==
    <<{"explain", "explanation", "what is", "how"}, {"understand", "meaning"}>>
COMPLEXITY_BOOSTERS ==
    <<{"complex", "advanced", "sophisticated"}, {"entire", "complete", "all"},
      {"integrate", "integration"}, {"large-scale", "enterprise"}>>
COMPLEXITY_REDUCERS ==
    <<{"simple", "basic", "easy"}, {"one", "single"}, {"example", "sample"}>>
common_words ==
    {"the", "a", "an", "is", "are", "was", "were", "be", "been", "have", "has", "had",
     "do", "does", "did", "will", "would", "could", "should", "may", "might", "must",
     "can", "to", "of", "in", "for", "on", "with", "at", "by", "from", "as", "or", "and",
     "but", "if", "then", "else", "when", "where", "what", "which", "who", "how", "why",
     "all", "each", "every", "both", "few", "more", "most", "other", "some", "such",
     "no", "not", "only", "same", "so", "than", "too", "very", "just", "also", "now",
     "here", "there", "this", "that", "these", "those"}

\* TaskAnalyzer._pattern_score and _check_patterns
pattern_score(text, patterns) ==
    Cardinality({k \in 1..Len(patterns) : SearchWords(text, patterns[k])})
check_patterns(text, patterns) == pattern_score(text, patterns) > 0

\* TaskAnalyzer._is_simple_chat
is_simple_chat(p) ==
    \/ p = ""
    \/ Len(p) < SIMPLE_MAX_LENGTH
    \/ (\E pattern \in SIMPLE_PATTERNS : Contains(p, pattern)) /\ Len(p) < 30
    \/ Len(split(p)) <= 3
    \/ IF \E indicator \in technical_indicators : Contains(p, indicator) THEN FALSE ELSE FALSE

\* TaskAnalyzer._detect_task_type: the first kind, in the order of the
\* dict, that has the highest score
detect_task_type(p) ==
    LET kinds == <<"code", "design", "analysis", "creative", "research", "debug", "explain">>
        lists == <<CODE_PATTERNS, DESIGN_PATTERNS, ANALYSIS_PATTERNS, CREATIVE_PATTERNS,
                   RESEARCH_PATTERNS, DEBUG_PATTERNS, EXPLAIN_PATTERNS>>
        score(k) == pattern_score(p, lists[k])
        max_score == CHOOSE m \in {score(k) : k \in 1..7} : \A k \in 1..7 : score(k) <= m
    IN  IF max_score = 0 THEN "general"
        ELSE kinds[CHOOSE k \in 1..7 : score(k) = max_score /\ \A h \in 1..(k - 1) : score(h) # max_score]

\* TaskAnalyzer._extract_keywords
extract_keywords(p) ==
    LET words == split(p)
        kept == SelectSeq(words, LAMBDA w : w \notin common_words /\ Len(w) > 2)
        first == {k \in 1..Len(kept) : \A h \in 1..(k - 1) : kept[h] # kept[k]}
        unique == [i \in 1..Cardinality(first) |->
                     kept[CHOOSE k \in first : Cardinality({h \in first : h <= k}) = i]]
    IN  IF Len(unique) <= 10 THEN unique ELSE SubSeq(unique, 1, 10)

\* TaskAnalyzer._calculate_complexity, in hundredths
calculate_complexity(p, keywords) ==
    LET word_count == Len(split(p))
        type_count == Cardinality({k \in 1..3 :
                         check_patterns(p, <<CODE_PATTERNS, DESIGN_PATTERNS, ANALYSIS_PATTERNS>>[k])})
        score == 50
                 + (IF word_count > 50 THEN 15 ELSE IF word_count > 20 THEN 8
                    ELSE IF word_count < 10 THEN -10 ELSE 0)
                 + (IF Len(keywords) > 7 THEN 10 ELSE IF Len(keywords) > 4 THEN 5 ELSE 0)
                 + (IF check_patterns(p, COMPLEXITY_BOOSTERS) THEN 20 ELSE 0)
                 - (IF check_patterns(p, COMPLEXITY_REDUCERS) THEN 20 ELSE 0)
                 + (IF type_count > 1 THEN 10 * (type_count - 1) ELSE 0)
    IN  Max(0, Min(100, score))

\* TaskAnalyzer._suggest_ai_count
suggest_ai_count(complexity) ==
    IF complexity < 30 THEN 2 ELSE IF complexity < 60 THEN 3 ELSE 4

\* TaskAnalyzer.analyze
analyze(p) ==
    LET prompt_lower == strip(str_lower(p))
    IN  IF is_simple_chat(prompt_lower)
        THEN [task_type |-> "simple_chat", complexity |-> 10, keywords |-> <<>>,
              requires_code |-> FALSE, requires_creativity |-> FALSE,
              requires_analysis |-> FALSE, suggested_rounds |-> 1, suggested_ai_count |-> 1]
        ELSE LET task_type == detect_task_type(prompt_lower)
                 keywords == extract_keywords(prompt_lower)
                 complexity == calculate_complexity(prompt_lower, keywords)
             IN  [task_type |-> task_type, complexity |-> complexity, keywords |-> keywords,
                  requires_code |-> check_patterns(prompt_lower, CODE_PATTERNS),
                  requires_creativity |-> check_patterns(prompt_lower, CREATIVE_PATTERNS),
                  requires_analysis |-> check_patterns(prompt_lower, ANALYSIS_PATTERNS),
                  suggested_rounds |-> suggest_rounds(complexity, task_type),
                  suggested_ai_count |-> suggest_ai_count(complexity)]

\* the words the modelled prompts are made of
Vocabulary == {"code", "Code", "db", "ok", "a", "fix"}

RECURSIVE Join(_)
Join(words) ==
    IF words = <<>> THEN ""
    ELSE IF Len(words) = 1 THEN words[1]
    ELSE words[1] \o " " \o Join(Tail(words))

\* the prompts: up to MaxWords words with a blank between them, typed with
\* or without blanks around them
Prompts ==
    { pad \o Join(words) \o pad :
        words \in UNION { [1..n -> Vocabulary] : n \in 0..MaxWords },
        pad \in {"", " "} }

AnalyzerInit ==
    /\ IdleCoordinator
    /\ Unused("analyzer")
    /\ \E p \in Prompts : NotAnalyzed(p)

Analyze ==
    /\ analyzed = None
    /\ analyzed' = analyze(analyzer_prompt)
    /\ UNCHANGED <<outside_analyzer, analyzer_prompt>>

AnalyzerNext == Analyze

AnalyzerSpec == AnalyzerInit /\ [][AnalyzerNext]_vars

(* -------------------------- AISelector.select -------------------------- *)
\* the adapters a modelled list of available adapters has at most
MaxAdapters == 4

\* Coordinator.__init__: the max_ais its AISelector is made with
max_ais == 4

TaskTypes ==
    {"code", "design", "analysis", "creative", "research", "debug", "explain", "general",
     "simple_chat"}

\* the analyzed tasks handed to select: every kind, at a complexity below
\* 0.3, up to 0.5, up to 0.7 and above
SelectorTasks == { Task(task_type, c) : task_type \in TaskTypes, c \in {20, 35, 60, 80} }

AdapterNames == {"claude", "codex", "gemini", "ollama", "glm"}

\* lists of available adapters: up to MaxAdapters adapters, each once
AdapterLists ==
    { names \in UNION { [1..n -> AdapterNames] : n \in 0..MaxAdapters } :
        \A i, j \in 1..Len(names) : i # j => names[i] # names[j] }

SelectorInit ==
    /\ IdleCoordinator
    /\ Unused("selector")
    /\ \E t \in SelectorTasks, names \in AdapterLists, up \in BOOLEAN :
          NotSelected(Request(t, names, up))

Select ==
    /\ selected = None
    /\ selected' = [adapters |-> select(selector_request.task, selector_request.names,
                                        selector_request.ollama_available)]
    /\ UNCHANGED <<outside_selector, selector_request>>

SelectorNext == Select

SelectorSpec == SelectorInit /\ [][SelectorNext]_vars

(* ------------------------ utils.text.clean_ansi ------------------------ *)
\* the characters a modelled text has at most, and the clean_ansi calls made
\* on it
MaxText == 4
MaxPasses == 2

\* the character \x1B
ESC == "ESC"

\* the characters of the modelled texts: ESC, the CSI introducer, a digit, a
\* blank, a small letter and a capital letter
AnsiChars == {ESC, "[", "0", " ", "m", "M"}

\* ANSI_ESCAPE_PATTERN: the classes [@-Z\\-_], [0-?], [ -/] and [@-~] among
\* the characters of the model
TwoCharFinal == {"M"}
CsiParameter == {"0"}
CsiIntermediate == {" "}
CsiFinal == {"[", "m", "M"}

\* the end of the longest run of characters of a class that starts at i
RECURSIVE RunEnd(_, _, _)
RunEnd(text, i, class) ==
    IF i <= Len(text) /\ text[i] \in class THEN RunEnd(text, i + 1, class) ELSE i

\* ANSI_ESCAPE_PATTERN matched at position i: the position after the match,
\* 0 when there is none. The three classes of the CSI branch are disjoint, so
\* giving back characters of a greedy run never produces a match.
match_at(text, i) ==
    IF i + 1 > Len(text) \/ text[i] # ESC THEN 0
    ELSE IF text[i + 1] \in TwoCharFinal THEN i + 2
    ELSE IF text[i + 1] # "[" THEN 0
    ELSE LET j == RunEnd(text, RunEnd(text, i + 2, CsiParameter), CsiIntermediate)
         IN  IF j <= Len(text) /\ text[j] \in CsiFinal THEN j + 1 ELSE 0

\* ANSI_ESCAPE_PATTERN.sub("", text): the matches found from left to right
\* are left out, every other character is kept
RECURSIVE sub_from(_, _)
sub_from(text, i) ==
    IF i > Len(text) THEN <<>>
    ELSE IF match_at(text, i) # 0 THEN sub_from(text, match_at(text, i))
    ELSE <<text[i]>> \o sub_from(text, i + 1)

\* clean_ansi
clean_ansi(text) == sub_from(text, 1)

AnsiTexts == UNION { [1..n -> AnsiChars] : n \in 0..MaxText }

AnsiInit ==
    /\ IdleCoordinator
    /\ Unused("ansi")
    /\ \E text \in AnsiTexts : NotCleaned(text)

CleanAnsi ==
    /\ Len(passes) < MaxPasses
    /\ passes' = Append(passes, clean_ansi(IF passes = <<>> THEN ansi_text
                                           ELSE passes[Len(passes)]))
    /\ UNCHANGED <<outside_ansi, ansi_text>>

AnsiNext == CleanAnsi

AnsiSpec == AnsiInit /\ [][AnsiNext]_vars

(* --------------- overlapping calls of Coordinator.process -------------- *)
\* what both calls are given: an input analysed as CODE with complexity
\* 0.45 and one available adapter, so that select returns that adapter
OverlapTask == Task("code", 45)
OverlapAdapter == Adapter("claude")

\* an event reaches the consumer of call i through _convert_event
YieldTo(r, e) == [r EXCEPT !.events = Append(@, convert_event(e))]

\* process() up to the start of discussion.run, and run() up to its round
\* loop: self._context = SharedContext(user_input); self.state =
\* DiscussionState()
OverlapProcess(i) ==
    /\ runs[i].pc = "idle"
    /\ select(OverlapTask, <<OverlapAdapter.name>>, FALSE) = <<OverlapAdapter>>
    /\ contexts' = [contexts EXCEPT ![i] = SharedContext]
    /\ self_context' = i
    /\ discussion_state' = DiscussionState
    /\ runs' = [runs EXCEPT ![i] =
                  [@ EXCEPT !.pc = "round_start",
                            !.max_rounds = run_max_rounds(OverlapTask, cfg),
                            !.round_num = 1,
                            !.events = <<TaskAnalyzedEvent(OverlapTask),
                                         AIsSelectedEvent(<<OverlapAdapter>>)>>]]
    /\ UNCHANGED outside_overlap

\* run(): self.state.current_round = round_num; yield RoundStartEvent
OverlapRoundStart(i) ==
    /\ runs[i].pc = "round_start"
    /\ discussion_state' = [discussion_state EXCEPT !.current_round = runs[i].round_num]
    /\ runs' = [runs EXCEPT ![i] =
                  [YieldTo(@, RoundStartEvent(runs[i].round_num, runs[i].max_rounds))
                     EXCEPT !.pc = "turn"]]
    /\ UNCHANGED <<outside_overlap, contexts, self_context>>

\* run(): the adapter's turn ends with a response of one chunk, which is
\* added to the context run() was given
OverlapTurnEnd(i, chunk) ==
    /\ runs[i].pc = "turn"
    /\ contexts' = [contexts EXCEPT ![i] =
                      add_message(@, OverlapAdapter.name, <<chunk>>, runs[i].round_num)]
    /\ discussion_state' = [discussion_state EXCEPT !.ai_responses =
                               AppendResponse(@, OverlapAdapter.name, <<chunk>>)]
    /\ runs' = [runs EXCEPT ![i] =
                  [YieldTo(YieldTo(YieldTo(@,
                      AITurnStartEvent(OverlapAdapter.display_name)),
                      AIChunkEvent(OverlapAdapter.display_name, chunk)),
                      AITurnEndEvent(OverlapAdapter.display_name, <<chunk>>))
                     EXCEPT !.pc = "round_end"]]
    /\ UNCHANGED <<outside_overlap, self_context>>

\* run(): the adapter's send raises AdapterError
OverlapTurnError(i) ==
    /\ runs[i].pc = "turn"
    /\ runs' = [runs EXCEPT ![i] =
                  [YieldTo(YieldTo(@,
                      AITurnStartEvent(OverlapAdapter.display_name)),
                      AIErrorEvent(OverlapAdapter.display_name, "AdapterError"))
                     EXCEPT !.pc = "round_end"]]
    /\ UNCHANGED <<outside_overlap, contexts, self_context, discussion_state>>

\* run() yields RoundEnd; process() then calls _check_for_conflict, which
\* reads self._context (with one adapter it finds no conflict)
OverlapRoundEnd(i) ==
    /\ runs[i].pc = "round_end"
    /\ runs' = [runs EXCEPT ![i] =
                  [YieldTo(@, RoundEndEvent(runs[i].round_num))
                     EXCEPT !.pc = "consensus",
                            !.conflict_contexts =
                                IF ShouldCheckConflict(cfg, runs[i].round_num)
                                THEN @ \cup {self_context} ELSE @]]
    /\ IF ShouldCheckConflict(cfg, runs[i].round_num)
       THEN detect_conflict(contexts[self_context], OverlapTask.task_type) = None
       ELSE TRUE
    /\ UNCHANGED <<outside_overlap, contexts, self_context, discussion_state>>

\* run() after RoundEnd: the consensus check on the context run() was given,
\* then the next round or the end of the loop
OverlapConsensusCheck(i) ==
    /\ runs[i].pc = "consensus"
    /\ LET r == runs[i].round_num
           checking == ShouldCheckConsensus(cfg, r)
           consensus == IF checking THEN check_consensus(contexts[i]) ELSE FALSE
           yielded == IF checking THEN YieldTo(runs[i], ConsensusCheckEvent(r, consensus))
                      ELSE runs[i]
       IN  /\ discussion_state' = IF consensus
                                  THEN [discussion_state EXCEPT !.consensus_reached = TRUE]
                                  ELSE discussion_state
           /\ contexts' = IF consensus
                          THEN [contexts EXCEPT ![i] = [@ EXCEPT !.consensus_reached = TRUE]]
                          ELSE contexts
           /\ runs' = [runs EXCEPT ![i] =
                         IF consensus
                         THEN [yielded EXCEPT !.pc = "complete", !.consensus = TRUE]
                         ELSE IF r < runs[i].max_rounds
                         THEN [yielded EXCEPT !.pc = "round_start", !.round_num = r + 1]
                         ELSE [yielded EXCEPT !.pc = "complete"]]
    /\ UNCHANGED <<outside_overlap, self_context>>

\* run() after its loop: DiscussionComplete from self.state; then process()
\* synthesizes self._context and yields it with the Result
OverlapComplete(i) ==
    /\ runs[i].pc = "complete"
    /\ discussion_state' = [discussion_state EXCEPT !.is_complete = TRUE]
    /\ runs' = [runs EXCEPT ![i] =
                  [YieldTo(YieldTo(@,
                      DiscussionCompleteEvent(discussion_state.current_round,
                                              discussion_state.consensus_reached)),
                      ResultEvent(synthesize(contexts[self_context])))
                     EXCEPT !.pc = "done", !.result_context = self_context]]
    /\ UNCHANGED <<outside_overlap, contexts, self_context>>

OverlapInit ==
    /\ IdleCoordinator
    /\ Unused("overlap")
    /\ NoRuns

OverlapNext ==
    \E i \in Runs :
       \/ OverlapProcess(i)
       \/ OverlapRoundStart(i)
       \/ \E chunk \in ChunkTexts : OverlapTurnEnd(i, chunk)
       \/ OverlapTurnError(i)
       \/ OverlapRoundEnd(i)
       \/ OverlapConsensusCheck(i)
       \/ OverlapComplete(i)

OverlapSpec == OverlapInit /\ [][OverlapNext]_vars

(* ===================== properties of the event streams ================== *)
IsAdapterEvent(e) == e.type \in {"AITurnStart", "AIChunk", "AITurnEnd", "AIError"}

\* number of events of type ty among the first i events of stream s
CountType(s, ty, i) == Cardinality({j \in 1..i : s[j].type = ty})

\* the round an event of run()'s stream lies in: RoundStarts up to it
RoundAt(i) == CountType(disc_events, "RoundStart", i)

\* AITurnStarts of the current round up to event i
TurnAt(i) ==
    Cardinality({j \in 1..i : /\ disc_events[j].type = "AITurnStart"
                              /\ RoundAt(j) = RoundAt(i)})

StandardRun == pc # "idle" /\ ~IsFastPath(current_task) /\ current_adapters # <<>>
FastRun == pc # "idle" /\ IsFastPath(current_task) /\ current_adapters # <<>>

\* position of the n-th AITurnStart in run()'s stream
TurnStartPos(n) ==
    CHOOSE i \in 1..Len(disc_events) :
        disc_events[i].type = "AITurnStart" /\ CountType(disc_events, "AITurnStart", i) = n

ConsensusAt(r) ==
    \E j \in 1..Len(disc_events) : disc_events[j] = ConsensusCheckEvent(r, TRUE)

\* C1: a send that fails with AdapterError or a timeout never aborts the
\* round: the turn closes with AIError for that adapter, the next event is the
\* AITurnStart of the next adapter of the list or, after the last adapter,
\* RoundEnd of the same round (until then the adapter loop stands at the next
\* adapter), and once the discussion is over RoundStart(r+1)
\* is in the stream whenever r was not the last round and no consensus ended
\* the discussion at r.
C1_FailureNeverAbortsRound ==
    StandardRun =>
      \A n \in 1..Len(send_log) :
        send_log[n] \in {"AdapterError", "TimeoutError"} =>
          LET i == TurnStartPos(n)
              r == RoundAt(i)
              k == TurnAt(i)
          IN  \E j \in (i + 1)..Len(disc_events) :
                /\ \A m \in (i + 1)..(j - 1) : disc_events[m].type = "AIChunk"
                /\ disc_events[j].type = "AIError"
                /\ disc_events[j].ai_name = current_adapters[k].display_name
                /\ IF j < Len(disc_events)
                   THEN IF k < Len(current_adapters)
                        THEN disc_events[j + 1] =
                               AITurnStartEvent(current_adapters[k + 1].display_name)
                        ELSE disc_events[j + 1] = RoundEndEvent(r)
                   ELSE pc = "turn" /\ idx = k + 1
                /\ (pc = "done" /\ r < max_rounds /\ ~ConsensusAt(r)) =>
                      \E q \in (j + 1)..Len(disc_events) :
                          disc_events[q] = RoundStartEvent(r + 1, max_rounds)

\* C1 witness: every adapter of round 1 failed (one by AdapterError, one by a
\* timeout), the round ended and the discussion ran round 2 to its end
C1_Witness ==
    /\ pc = "done"
    /\ StandardRun
    /\ Len(current_adapters) = 2
    /\ Len(send_log) >= 4
    /\ send_log[1] = "TimeoutError"
    /\ send_log[2] = "AdapterError"
    /\ \E j \in 1..Len(disc_events) : disc_events[j] = RoundEndEvent(2)

\* C2: in run()'s stream the events of one turn are contiguous (AITurnStart,
\* chunks, then AITurnEnd or AIError), the k-th turn of a round belongs to
\* the k-th adapter of the list, and a round ends after the last adapter
C2_TurnsContiguousInListOrder ==
    \A i \in 1..Len(disc_events) :
      LET e == disc_events[i]
          k == TurnAt(i)
      IN  /\ IsAdapterEvent(e) =>
                /\ k \in 1..Len(current_adapters)
                /\ e.ai_name = current_adapters[k].display_name
          /\ e.type = "AITurnStart" =>
                disc_events[i - 1].type \in {"RoundStart", "AITurnEnd", "AIError"}
          /\ e.type \in {"AIChunk", "AITurnEnd", "AIError"} =>
                disc_events[i - 1].type \in {"AITurnStart", "AIChunk"}
          /\ e.type = "RoundEnd" =>
                /\ k = Len(current_adapters)
                /\ disc_events[i - 1].type \in {"AITurnEnd", "AIError"}

\* C2 witness: a finished round in which both adapters streamed a chunk
C2_Witness ==
    /\ Len(current_adapters) = 2
    /\ \E i \in 1..Len(disc_events) :
         /\ disc_events[i].type = "RoundEnd"
         /\ \E a, b \in 1..i :
              /\ a < b
              /\ disc_events[a].type = "AIChunk"
              /\ disc_events[b].type = "AIChunk"
              /\ disc_events[a].ai_name = current_adapters[1].display_name
              /\ disc_events[b].ai_name = current_adapters[2].display_name
              /\ RoundAt(a) = RoundAt(i)

\* C3: RoundStart and RoundEnd alternate and are numbered 1, 2, ... in
\* order, every adapter event lies between the RoundStart and the RoundEnd
\* of its round, and the message a turn adds carries that round's number
C3_RoundsBracketTurns ==
    \A i \in 1..Len(disc_events) :
      LET e == disc_events[i]
          starts == CountType(disc_events, "RoundStart", i)
          ends == CountType(disc_events, "RoundEnd", i)
      IN  /\ e.type = "RoundStart" => e.round_num = starts /\ ends = starts - 1
          /\ e.type = "RoundEnd" => e.round_num = starts /\ ends = starts
          /\ IsAdapterEvent(e) => starts >= 1 /\ ends = starts - 1
          /\ e.type = "AITurnEnd" =>
                context.messages[CountType(disc_events, "AITurnEnd", i)].round_num = starts

\* C3 witness: two complete rounds, each with an adapter event
C3_Witness ==
    \E i, j \in 1..Len(disc_events) :
        /\ disc_events[i] = RoundEndEvent(1)
        /\ disc_events[j] = RoundEndEvent(2)
        /\ disc_events[i - 1].type = "AITurnEnd"
        /\ disc_events[j - 1].type = "AIError"

IsRoundEvent(e) ==
    e.type \in {"RoundStart", "RoundEnd", "AIStart", "AIChunk", "AIEnd", "AIError",
                "ConsensusCheck", "ConsensusReached", "ConflictDetected",
                "ConflictResolved", "DiscussionComplete"}

\* C4: in process()'s stream TaskAnalyzed comes before AIsSelected, AIsSelected
\* before every round event, and a Result is the last event of the stream
\* (so there is at most one) and the generator has finished
C4_StreamOrder ==
    \A i \in 1..Len(events) :
      LET e == events[i]
      IN  /\ e.type = "TaskAnalyzed" =>
                \A j \in 1..Len(events) : events[j].type = "AIsSelected" => i < j
          /\ IsRoundEvent(e) =>
                \E j \in 1..(i - 1) : events[j].type = "AIsSelected"
          /\ e.type = "Result" => i = Len(events) /\ pc = "done"

\* C4 witness: a finished standard run with a conflict and a Result
C4_Witness ==
    /\ pc = "done"
    /\ events[1].type = "TaskAnalyzed"
    /\ events[Len(events)].type = "Result"
    /\ \E i \in 1..Len(events) : events[i].type = "ConflictDetected"

\* token estimates of message m and of all newer messages
RECURSIVE SuffixTokens(_)
SuffixTokens(m) ==
    IF m > Len(context.messages) THEN 0
    ELSE context.messages[m].token_count + SuffixTokens(m + 1)

\* message m of the context stands in the prompt of the current turn
InPrompt(m) ==
    LET h == m - (Len(context.messages) - Len(prompt.history))
    IN  /\ h \in 1..Len(prompt.history)
        /\ prompt.history[h].ai_name = context.messages[m].ai_name
        /\ prompt.history[h].content = context.messages[m].content

\* C5 as stated: in every round, round 1 included, the prompt of a turn
\* contains the messages the earlier adapters of the same round have added
C5_PromptSeesSameRound ==
    pc = "sending" =>
      \A m \in 1..Len(context.messages) :
          context.messages[m].round_num = round_num => InPrompt(m)

\* C5 amended: in every round after round 1 the prompt of a turn contains
\* each message earlier adapters of the same round have added, provided the
\* token estimates of that message and of all newer ones sum to at most
\* max_tokens / 2 (contents above 500 characters are cut); the prompt of a
\* round-1 turn contains no message
C5_PromptSeesSameRoundAfterFirst ==
    pc = "sending" =>
      /\ round_num = 1 => prompt.first_round /\ prompt.history = <<>>
      /\ round_num > 1 =>
           \A m \in 1..Len(context.messages) :
              (context.messages[m].round_num = round_num
                 /\ SuffixTokens(m) <= max_tokens \div 2) =>
                    /\ InPrompt(m)
                    /\ prompt.history[m - (Len(context.messages) - Len(prompt.history))].truncated
                         = (TextLen(context.messages[m].content) > PromptTruncate)

\* C5 witness: the second adapter's turn in round 2, whose prompt holds the
\* message the first adapter added in round 2
C5_Witness ==
    /\ pc = "sending"
    /\ round_num = 2
    /\ idx = 2
    /\ Len(context.messages) >= 1
    /\ context.messages[Len(context.messages)].round_num = 2
    /\ context.messages[Len(context.messages)].content # <<>>
    /\ InPrompt(Len(context.messages))

NumRounds == CountType(disc_events, "RoundStart", Len(disc_events))

\* C6: run() starts at most min(task.suggested_rounds, config.max_rounds)
\* rounds; DiscussionComplete is emitted at most once, as the last event of
\* run()'s stream, and carries the number of the last round started; and
\* when no send raises an unexpected exception process() reaches its end,
\* with DiscussionComplete emitted when a discussion ran
C6_DiscussionComplete ==
    StandardRun =>
      /\ NumRounds <= Min(current_task.suggested_rounds, cfg.max_rounds)
      /\ \A i \in 1..Len(disc_events) :
            disc_events[i].type = "DiscussionComplete" =>
               /\ i = Len(disc_events)
               /\ disc_events[i].total_rounds = NumRounds
               /\ pc = "done"
      /\ pc = "done" => disc_events[Len(disc_events)].type = "DiscussionComplete"

C7_NoConsensusBeforeRound2 ==
    /\ \A i \in 1..Len(disc_events) :
          disc_events[i].type = "ConsensusCheck" =>
             /\ disc_events[i].round_num >= 2
             /\ \E j \in 1..(i - 1) : disc_events[j] = RoundEndEvent(2)
    /\ \A i \in 1..Len(events) :
          events[i].type \in {"ConsensusCheck", "ConsensusReached"} =>
             events[i].round_num >= 2
    /\ (state.consensus_reached
          \/ (IF context = None THEN FALSE ELSE context.consensus_reached)) =>
             \E j \in 1..Len(disc_events) : disc_events[j] = RoundEndEvent(2)

\* C7 witness: round 1 is over with responses the heuristic counts as
\* consensus, the check is enabled, and round 2 is about to start
C7_Witness ==
    /\ pc = "round_start"
    /\ round_num = 2
    /\ cfg.enable_consensus_check
    /\ check_consensus(context)
    /\ ~state.consensus_reached

AllTurnsFailed ==
    /\ send_log # <<>>
    /\ \A n \in 1..Len(send_log) : send_log[n] \in {"AdapterError", "TimeoutError"}

\* C8: a standard-path run in which every turn of every round failed with an
\* adapter error ends with a Result that has no contributions, no message
\* and consensus_reached = false
C8_AllFailedStillResult ==
    (pc = "done" /\ StandardRun /\ AllTurnsFailed) =>
      LET e == events[Len(events)]
      IN  /\ e.type = "Result"
          /\ DOMAIN e.result.ai_contributions = {}
          /\ e.result.total_messages = 0
          /\ e.result.consensus_reached = FALSE

\* C8 witness: two adapters, two rounds with the consensus check enabled,
\* four failed turns
C8_Witness ==
    /\ pc = "done"
    /\ StandardRun
    /\ cfg.enable_consensus_check
    /\ AllTurnsFailed
    /\ Len(send_log) = 4
    /\ events[Len(events)].type = "Result"

\* C9 as stated: once an adapter has been chosen, whatever its send raises,
\* the stream of process() ends with a Result
C9_StreamEndsWithResult ==
    (pc \in {"done", "raised"} /\ current_adapters # <<>>) =>
        events[Len(events)].type = "Result"

\* C10: a fast-path run whose adapter answers yields exactly AIsSelected with
\* the first available adapter, AIStart, the chunks in order, AIEnd with
\* their concatenation and a Result with one round, one message and
\* consensus; run() yields nothing
C10_FastPathStream ==
    (pc = "done" /\ FastRun /\ send_log = <<"ok">>) =>
      LET n == Len(events)
          first == Adapter(available_adapters[1])
      IN  /\ n >= 4
          /\ events[1] = AIsSelectedEvent(<<first>>)
          /\ events[2] = AIStartEvent(first.display_name)
          /\ \A i \in 3..(n - 2) :
                events[i].type = "AIChunk" /\ events[i].ai_name = first.display_name
          /\ events[n - 1] = AIEndEvent(first.display_name,
                                        [i \in 1..(n - 4) |-> events[i + 2].chunk])
          /\ events[n].type = "Result"
          /\ events[n].result.total_rounds = 1
          /\ events[n].result.total_messages = 1
          /\ events[n].result.consensus_reached = TRUE
          /\ disc_events = <<>>

\* C10 witness: a low-complexity request answered in two chunks by the first
\* of two available adapters, the second being claude
C10_Witness ==
    /\ pc = "done"
    /\ FastRun
    /\ send_log = <<"ok">>
    /\ available_adapters = <<"gemini", "claude">>
    /\ Len(events) = 6

\* the round an event of process()'s stream lies in: RoundStarts up to it
EventRoundAt(i) == CountType(events, "RoundStart", i)

\* C11: ConflictDetected appears in process()'s stream only directly after
\* RoundEnd(r) with r >= 2 and only when conflict detection is enabled, at
\* most once per round, before every consensus event of round r and before
\* RoundStart(r+1)
C11_ConflictDetectedPlacement ==
    \A i \in 1..Len(events) :
      events[i].type = "ConflictDetected" =>
        /\ cfg.enable_conflict_detection
        /\ i > 1
        /\ events[i - 1].type = "RoundEnd"
        /\ events[i - 1].round_num >= 2
        /\ events[i - 1].round_num = EventRoundAt(i)
        /\ \A j \in 1..Len(events) :
              (j # i /\ events[j].type = "ConflictDetected") =>
                  EventRoundAt(j) # EventRoundAt(i)
        /\ \A j \in 1..(i - 1) :
              /\ events[j].type \in {"ConsensusCheck", "ConsensusReached"} =>
                    events[j].round_num < EventRoundAt(i)
              /\ events[j].type = "RoundStart" =>
                    events[j].round_num <= EventRoundAt(i)

\* C11 witness: a finished run in which round 1 ended without a conflict
\* event and ConflictDetected follows RoundEnd(2), with a consensus event of
\* round 2 after it
C11_Witness ==
    /\ pc = "done"
    /\ \E i \in 2..Len(events) :
        /\ events[i].type = "ConflictDetected"
        /\ events[i - 1] = RoundEndEvent(2)
        /\ \E j \in (i + 1)..Len(events) :
              events[j].type = "ConsensusCheck" /\ events[j].round_num = 2

\* the calls of the conflict callback made right after event i
CallsAfter(i) == {n \in 1..Len(callback_calls) : callback_calls[n].at = i}

HasKeyPoint(point) == \E k \in 1..Len(context.key_points) : context.key_points[k] = point

\* what C12 says around the ConflictDetected at position i, the key point
\* being recorded exactly for the choices in recorded
C12_At(i, recorded) ==
    IF events[i].resolution.type = "user_decision"
    THEN cfg.conflict_callback =>
           IF i = Len(events)
           THEN pc = "conflict_callback" /\ CallsAfter(i) = {}
           ELSE /\ Cardinality(CallsAfter(i)) = 1
                /\ \A n \in CallsAfter(i) :
                     /\ events[i + 1] = ConflictResolvedEvent(events[i].conflict,
                                           events[i].resolution, callback_calls[n].returned)
                     /\ HasKeyPoint("User chose: " \o callback_calls[n].returned)
                          <=> callback_calls[n].returned \in recorded
    ELSE /\ CallsAfter(i) = {}
         /\ i < Len(events) => events[i + 1].type # "ConflictResolved"

C13_CancellationAbortsCall ==
    pc = "cancelled" =>
        /\ backend \notin {"running", "hung"}
        /\ \A i \in 1..Len(events) : events[i].type # "Result"

\* C14 as stated: a send whose backend has fallen silent is over by the time
\* the configured timeout has passed: it is never still waiting after more
\* than one timeout period
C14_SilentBackendTimesOut ==
    (pc = "sending" /\ backend = "hung") => waited <= 1

\* turns of run() that have ended, and those that ended with AIError for a
\* timeout of the adapter
TurnsEnded ==
    Cardinality({i \in 1..Len(disc_events) : disc_events[i].type \in {"AITurnEnd", "AIError"}})
TurnsTimedOut ==
    Cardinality({i \in 1..Len(disc_events) :
                    /\ disc_events[i].type = "AIError"
                    /\ disc_events[i].error = "AdapterTimeoutError"})

\* C15 as stated: a turn ends with AIError for a timeout error only after
\* max_retries further calls of send, so the calls of send made so far number
\* at least one per ended turn plus max_retries per turn that timed out
C15_AIErrorAfterRetryBudget ==
    StandardRun => Len(send_log) >= TurnsEnded + max_retries * TurnsTimedOut

(* ==================== properties of the circuit breaker ================= *)
\* failures recorded since the latest recorded success
TrailingFailures(log) ==
    Cardinality({k \in 1..Len(log) :
                    \A j \in (Len(log) - k + 1)..Len(log) : log[j] = "failure"})

\* C16: a failure recorded on a closed breaker opens it exactly when it is
\* the failure_threshold-th failure in a row (a closed breaker holds fewer),
\* and an execute call that finds the breaker open before recovery_timeout
\* has passed raises CircuitBreakerOpenError without calling func
C16_OpensAtThreshold ==
    /\ breaker.state = "closed" =>
          TrailingFailures(record_log) < breaker_cfg.failure_threshold
    /\ (last_record # None /\ last_record.before = "closed"
                          /\ last_record.outcome = "failure") =>
          (last_record.after = "open" <=>
              TrailingFailures(record_log) = breaker_cfg.failure_threshold)
    /\ (last_call # None /\ last_call.before = "open" /\ last_call.early) =>
          ~last_call.admitted /\ ~last_call.invoked

\* C16 witness: with failure_threshold 2 the second failure in a row has
\* opened the breaker and the call that followed was rejected
C16_Witness ==
    /\ breaker_cfg.failure_threshold = 2
    /\ record_log = <<"failure", "failure">>
    /\ last_record.before = "closed"
    /\ last_record.after = "open"
    /\ breaker.state = "open"
    /\ last_call # None
    /\ last_call.before = "open"
    /\ ~last_call.admitted
    /\ rejected = 1
    /\ in_flight = 0

\* C17: a success recorded on a closed breaker leaves it closed with failure
\* count 0; the failure count of a closed breaker is the number of failures
\* recorded since the latest success; and a closed breaker is opened only by
\* a failure that is at least the failure_threshold-th in a row
C17_SuccessResetsFailures ==
    /\ (last_record # None /\ last_record.before = "closed"
                          /\ last_record.outcome = "success") =>
          last_record.after = "closed" /\ last_record.failure_count = 0
    /\ breaker.state = "closed" =>
          breaker.failure_count = TrailingFailures(record_log)
    /\ (last_record # None /\ last_record.before = "closed"
                          /\ last_record.after = "open") =>
          /\ last_record.outcome = "failure"
          /\ TrailingFailures(record_log) >= breaker_cfg.failure_threshold

\* C17 witness: with failure_threshold 2, a failure, a success and another
\* failure leave the breaker closed with failure count 1
C17_Witness ==
    /\ breaker_cfg.failure_threshold = 2
    /\ record_log = <<"failure", "success", "failure">>
    /\ breaker.state = "closed"
    /\ breaker.failure_count = 1

\* C18: an execute call on an open breaker made before recovery_timeout has
\* passed since the last recorded failure is rejected without calling func
\* and leaves the breaker open; the breaker leaves open only for half_open
\* and only in an execute call made when recovery_timeout has passed
C18_OpenUntilRecovery ==
    [][breaker.state = "open" =>
         /\ (calls' = calls + 1 /\ now - breaker.last_failure_time
                                      < breaker_cfg.recovery_timeout) =>
               /\ rejected' = rejected + 1
               /\ in_flight' = in_flight
               /\ breaker'.state = "open"
         /\ breaker'.state # "open" =>
               /\ breaker'.state = "half_open"
               /\ calls' = calls + 1
               /\ in_flight' = in_flight + 1
               /\ now - breaker.last_failure_time >= breaker_cfg.recovery_timeout
      ]_vars

\* C18 witness: a call was rejected one clock unit after the failure that
\* opened the breaker, and a later call has taken the breaker to half_open
C18_Witness ==
    /\ breaker.state = "half_open"
    /\ rejected >= 1
    /\ last_call.before = "open"
    /\ last_call.admitted
    /\ now - breaker.last_failure_time >= breaker_cfg.recovery_timeout

\* C19 as stated: while the breaker is half_open the calls admitted since it
\* entered half_open, the one that took it there included, number at most
\* half_open_requests
C19_HalfOpenAdmitsAtMost ==
    breaker.state = "half_open" => half_open_admitted <= breaker_cfg.half_open_requests

\* C20 as stated: a success recorded on a half_open breaker closes it with
\* failure count 0 and a failure recorded on a half_open breaker opens it
C20_HalfOpenOutcome ==
    (last_record # None /\ last_record.before = "half_open") =>
        IF last_record.outcome = "success"
        THEN last_record.after = "closed" /\ last_record.failure_count = 0
        ELSE last_record.after = "open"

(* ============================ retry helpers ============================ *)
\* the errors the running helper retries
Retried(e) ==
    IF helper = "retry_async" THEN isinstance(e, retry_config.retry_on)
    ELSE e \in {"AdapterTimeoutError", "AdapterConnectionError", "AdapterRateLimitError"}

\* C21: retry_async and _retry_operation invoke the operation at most
\* max_retries + 1 times; a successful attempt is the last invocation and the
\* call returns its result; when every attempt fails with a retried error the
\* call raises the last error after exactly max_retries + 1 invocations.
C21_AtMostMaxRetriesPlusOne ==
    helper # NoneStr =>
      /\ Len(invocations) <= retry_config.max_retries + 1
      /\ \A i \in 1..Len(invocations) :
            invocations[i] = "ok" => i = Len(invocations) /\ retry_pc = "returned"
      /\ retry_pc = "returned" =>
            Len(invocations) >= 1 /\ invocations[Len(invocations)] = "ok"
      /\ (retry_pc = "raised" /\ \A i \in 1..Len(invocations) : Retried(invocations[i])) =>
            /\ Len(invocations) = retry_config.max_retries + 1
            /\ raised = invocations[Len(invocations)]

C21_Witness ==
    /\ helper = "retry_async"
    /\ retry_config.max_retries = MaxRetries
    /\ retry_pc = "raised"
    /\ Len(invocations) = MaxRetries + 1
    /\ \A i \in 1..Len(invocations) : Retried(invocations[i])
    /\ invocations[1] # invocations[Len(invocations)]

\* the error kinds taken as declared retriable: those of retry_on, and
\* timeout and connection errors when no configuration is given
Declared ==
    IF retry_config = DefaultRetryConfig THEN {"TimeoutError", "ConnectionError"}
    ELSE retry_config.retry_on

\* C22: in retry_async an error whose kind is not declared retriable is
\* raised to the caller by the invocation that produced it, with no further
\* invocation and no delay after it; with the default configuration the
\* declared kinds are timeout and connection errors only.
C22_OnlyDeclaredKindsRetried ==
    helper = "retry_async" =>
      \A i \in 1..Len(invocations) :
         (invocations[i] # "ok" /\ ~isinstance(invocations[i], Declared)) =>
            /\ i = Len(invocations)
            /\ retry_pc = "raised"
            /\ raised = invocations[i]
            /\ Len(delays) < i

C24_ProbesOnlyOnMissOrExpiry ==
    last_check # None =>
      /\ last_check.probed <=> (~last_check.had_entry \/ last_check.age >= CACHE_TTL)
      /\ ~last_check.probed => last_check.returned = last_check.cached
      /\ last_check.after_invalidate => last_check.probed

(* ============================ shared context =========================== *)
\* C25: after any sequence of add_key_point and add_message calls the
\* key-points list has at most 20 entries, each at most 100 characters long,
\* and no two entries are equal when compared without regard to case.
C25_KeyPointsBoundedUnique ==
    /\ Len(shared.key_points) <= 20
    /\ \A i \in 1..Len(shared.key_points) : Len(shared.key_points[i]) <= 100
    /\ \A i, j \in 1..Len(shared.key_points) :
          i # j => str_lower(shared.key_points[i]) # str_lower(shared.key_points[j])

\* the token estimates of the message at position i and of all newer ones
RECURSIVE NewerTokens(_, _)
NewerTokens(msgs, i) ==
    IF i > Len(msgs) THEN 0 ELSE msgs[i].token_count + NewerTokens(msgs, i + 1)

C27_SaveGetRoundTrip ==
    (last_op # None /\ last_op.op = "get" /\ last_op.saved # None) =>
      /\ last_op.returned # None
      /\ last_op.returned.messages = last_op.saved.messages
      /\ last_op.returned.result = last_op.saved.result

\* C28: after delete_session(id) has returned true the store holds no
\* message row and no result row with that session id, and get_session(id)
\* returns nothing.
C28_DeleteCascades ==
    (last_op # None /\ last_op.op = "delete" /\ last_op.returned) =>
      /\ \A j \in 1..Len(db.messages) : db.messages[j].session_id # last_op.id
      /\ \A j \in 1..Len(db.results) : db.results[j].session_id # last_op.id
      /\ \A rows \in select_messages(db, last_op.id) :
            get_session(db, last_op.id, rows) = None

(* ============================ task analyzer ============================ *)
\* C29: every prompt whose trimmed length is at most 15 characters is
\* classified SIMPLE_CHAT with complexity 0.1, one round and one adapter,
\* whatever its word count.
C29_ShortPromptIsSimpleChat ==
    (analyzed # None /\ Len(strip(analyzer_prompt)) <= 15) =>
      /\ analyzed.task_type = "simple_chat"
      /\ analyzed.complexity = 10
      /\ analyzed.suggested_rounds = 1
      /\ analyzed.suggested_ai_count = 1

\* C30: a prompt that holds a technical cue, is longer than 15 characters
\* and has more than 3 words is never classified SIMPLE_CHAT, whether or not
\* it also holds a simple-chat cue and is shorter than 30 characters.
C30_TechnicalCueNotSimpleChat ==
    LET p == strip(str_lower(analyzer_prompt))
    IN  (/\ analyzed # None
         /\ \E cue \in technical_indicators : Contains(p, cue)
         /\ Len(p) > 15
         /\ Len(split(p)) > 3) =>
           analyzed.task_type # "simple_chat"

\* the pattern list of a task kind
PatternsOf(kind) ==
    CASE kind = "code" -> CODE_PATTERNS
      [] kind = "design" -> DESIGN_PATTERNS
      [] kind = "analysis" -> ANALYSIS_PATTERNS
      [] kind = "creative" -> CREATIVE_PATTERNS
      [] kind = "research" -> RESEARCH_PATTERNS
      [] kind = "debug" -> DEBUG_PATTERNS
      [] kind = "explain" -> EXPLAIN_PATTERNS

\* the priority order the tie-break is specified with
PriorityOrder == <<"debug", "code", "design", "research", "analysis", "creative", "explain">>

\* C31: a prompt that is not simple chat gets the kind with the highest
\* pattern score, among several such kinds the one that comes first in the
\* order DEBUG > CODE > DESIGN > RESEARCH > ANALYSIS > CREATIVE > EXPLAIN, and
\* GENERAL when every score is zero.
C31_TieBrokenByPriorityOrder ==
    LET p == strip(str_lower(analyzer_prompt))
        score(k) == pattern_score(p, PatternsOf(PriorityOrder[k]))
        best == {k \in 1..7 : \A h \in 1..7 : score(h) <= score(k)}
    IN  (analyzed # None /\ analyzed.task_type # "simple_chat") =>
           IF \A k \in 1..7 : score(k) = 0
           THEN analyzed.task_type = "general"
           ELSE analyzed.task_type = PriorityOrder[CHOOSE k \in best : \A h \in best : k <= h]

(* ============================== selector =============================== *)
\* C32: for every task and every list of available adapters, select returns
\* no more adapters than the selector's max_ais.
C32_SelectsAtMostMaxAIs ==
    selected # None => Len(selected.adapters) <= max_ais

(* ============================= clean_ansi ============================== *)
\* C33: clean_ansi is idempotent: a second pass over the output of a pass
\* removes nothing.
C33_CleanAnsiIdempotent ==
    Len(passes) >= 2 => passes[2] = passes[1]

(* ======================= the end of a discussion ======================= *)
\* the positions of the events of a type in a stream
Positions(stream, type) == {i \in 1..Len(stream) : stream[i].type = type}

\* the consensus checks of run() that reported consensus
ReportedConsensus ==
    {i \in Positions(disc_events, "ConsensusCheck") : disc_events[i].consensus_reached}

\* C34: once the consensus check of round r reports consensus, the
\* discussion stops: no RoundStart follows, ConsensusReached(r) is emitted
\* exactly once in the coordinator stream, DiscussionComplete carries
\* total_rounds = r and consensus = true, and the Result reports
\* consensus_reached = true.
C34_ConsensusEndsDiscussion ==
    \A i \in ReportedConsensus :
       LET r == disc_events[i].round_num
           reached == Positions(events, "ConsensusReached")
       IN  /\ \A j \in Positions(disc_events, "RoundStart") : j < i
           /\ \A j \in ReportedConsensus : j = i
           /\ Cardinality(reached) = 1
           /\ \A j \in reached :
                 /\ events[j] = ConsensusReachedEvent(r)
                 /\ \A k \in Positions(events, "RoundStart") : k < j
                 /\ \A k \in Positions(events, "ConsensusCheck") : k < j
           /\ \A j \in Positions(disc_events, "DiscussionComplete") :
                 j > i /\ disc_events[j] = DiscussionCompleteEvent(r, TRUE)
           /\ \A j \in Positions(events, "DiscussionComplete") :
                 events[j] = DiscussionCompleteEvent(r, TRUE)
           /\ \A j \in Positions(events, "Result") :
                 events[j].result.consensus_reached
           /\ pc = "done" =>
                 /\ Positions(events, "DiscussionComplete") # {}
                 /\ Positions(events, "Result") # {}

C34_Witness ==
    /\ pc = "done"
    /\ ReportedConsensus # {}
    /\ \E j \in Positions(events, "Result") : events[j].result.consensus_reached
    /\ \E j \in Positions(events, "DiscussionComplete"), k \in Positions(events, "RoundStart") :
          events[j].total_rounds < events[k].max_rounds

\* the messages of the context that an adapter added
MessagesOf(c, ai_name) == {k \in 1..Len(c.messages) : c.messages[k].ai_name = ai_name}

\* C35: in every Result event, on the fast path and on the standard path,
\* ai_contributions[a] is the number of messages adapter a added to the
\* Result's context, 0 for an adapter all of whose turns failed, and
\* total_messages is the number of messages in that context.
C35_ContributionsCountMessages ==
    \A j \in Positions(events, "Result") :
       LET result == events[j].result
       IN  /\ result.total_messages = Len(context.messages)
           /\ \A i \in 1..Len(current_adapters) :
                 LET a == current_adapters[i].name
                 IN  /\ a \in DOMAIN result.ai_contributions
                     /\ result.ai_contributions[a] = Cardinality(MessagesOf(context, a))

(* ====================== circuit breaker: recovery ====================== *)
\* recovery_timeout has elapsed since the last recorded failure
RecoveryTimeoutElapsed ==
    /\ breaker.last_failure_time # NoTime
    /\ now - breaker.last_failure_time >= breaker_cfg.recovery_timeout

\* a call of execute made now is admitted
Admits == can_execute(breaker, breaker_cfg, now).ok

\* the breaker is open and the clock of the model has reached its end
OpenAtEndOfTime == breaker.state = "open" /\ now = MaxTime

\* C36: a circuit breaker never gets permanently stuck rejecting calls: from
\* every reachable state, also one reached with overlapping execute calls,
\* once recovery_timeout has elapsed since the last recorded failure a later
\* call is admitted.
C36_NeverStuckRejecting ==
    [](RecoveryTimeoutElapsed => <>(Admits \/ OpenAtEndOfTime))

(* ================= availability cache: calls in flight ================= *)
\* a step replaces the entry of a name by one whose probe started at an
\* earlier clock reading
OlderProbeOverwrites ==
    \E name \in CacheNames :
       /\ availability_cache[name] # None
       /\ availability_cache'[name] # None
       /\ availability_cache'[name].time < availability_cache[name].time

\* C37: after invalidate_cache(name) or clear_availability_cache the next
\* is_available call for the name probes afresh, also when another
\* is_available call for it was awaiting its probe at that moment; and the
\* result of an older probe never replaces the entry written by a probe that
\* started later.
C37_InvalidationSurvivesCallsInFlight ==
    /\ []((last_check # None /\ last_check.after_invalidate) => last_check.probed)
    /\ [][~OlderProbeOverwrites]_vars

(* ========================== rounds of a Result ========================= *)
\* C38: on the standard path Result.total_rounds is the number of rounds
\* the discussion ran, the total_rounds of DiscussionComplete, also when no
\* adapter succeeded in the later rounds.
C38_ResultRoundsAreRoundsRun ==
    \A j \in Positions(events, "Result") :
       ~events[j].result.minimal =>
          /\ Positions(events, "DiscussionComplete") # {}
          /\ \A k \in Positions(events, "DiscussionComplete") :
                events[j].result.total_rounds = events[k].total_rounds

(* ===================== overlapping process() calls ===================== *)
\* C39: two overlapping process() calls on one Coordinator do not
\* interfere: the conflict checks and the Result of each call use the
\* context built from its own input, and its DiscussionComplete reports its
\* own round count and consensus flag.
C39_OverlappingRunsIndependent ==
    \A i \in Runs :
       /\ runs[i].conflict_contexts \subseteq {i}
       /\ runs[i].result_context \in {0, i}
       /\ \A j \in Positions(runs[i].events, "Result") :
             runs[i].events[j].result = synthesize(contexts[i])
       /\ \A j \in Positions(runs[i].events, "DiscussionComplete") :
             runs[i].events[j] =
                DiscussionCompleteEvent(runs[i].round_num, runs[i].consensus)

(* ======================= history store, resaving ======================= *)
\* C40: get_session right after save_session(s) returns the messages and
\* the result that s holds and no others, whatever earlier saves or deletes
\* under the same id left in the store (the order of the messages aside).
C40_SaveReplacesEarlierContent ==
    (last_op # None /\ last_op.op = "get" /\ last_op.saved # None) =>
      /\ last_op.returned # None
      /\ {last_op.returned.messages[j] : j \in 1..Len(last_op.returned.messages)}
           = {last_op.saved.messages[j] : j \in 1..Len(last_op.saved.messages)}
      /\ last_op.returned.result = last_op.saved.result

====
